---- MODULE Spec2Model ----
(***************************************************************************)
(* Model of the ZeroOnePolynomials solver: the Term / Polynomial / System  *)
(* data model (src/legacy/Term.hpp, src/src/Polynomial.hpp,                *)
(* src/src/System.hpp), the batched zero substitution                      *)
(* (src/src/ZeroSubstitution.hpp), the simplifier                          *)
(* (src/src/Simplification.cpp) and the case-split search driver           *)
(* (src/src/ZeroOneSolver.cpp).  A Term is the pair <<p_index, q_index>>,  *)
(* a Polynomial a sequence of Terms, a System a record of five sequences.  *)
(***************************************************************************)
EXTENDS Integers, Sequences, FiniteSets, TLC

\* ------------------------------------------------------------------ bounds
\* Degree pairs (i, j) explored by the search specification: 1..MaxI x 1..MaxJ.
MaxI == 3
MaxJ == 6
\* Degree pairs used as roots by the transformation specification.
OpsMaxI == 2
OpsMaxJ == 3
\* Number of set_zero requests put into one ZeroSubstitution batch.
MaxBatch == 2
\* Number of transformations chained on one System.
MaxOps == 3
\* Cap on the recursion depth of analyze.
MaxDepth == 30

\* -------------------------------------------------------------------- Term
Term(p, q) == <<p, q>>

has_p(term) == term[1] # 0

has_q(term) == term[2] # 0

is_constant(term) == ~(has_p(term) \/ has_q(term))

is_linear(term) == has_p(term) # has_q(term)

is_quadratic(term) == has_p(term) /\ has_q(term)

\* --------------------------------------------------------------- Utilities
contains(collection, item) ==
    \E k \in 1..Len(collection) : collection[k] = item

\* drop leaving the collection as it is.
drop_keeps(collection, item) == collection

drop(collection, item) ==
    SelectSeq(collection, LAMBDA element : ~(element = item))

\* drop_all leaving the collection as it is.
drop_all_keeps(collection, items) == collection

drop_all(collection, items) ==
    SelectSeq(collection, LAMBDA element : ~contains(items, element))

\* -------------------------------------------------------------- Polynomial
is_zero(poly) == Len(poly) = 0

\* is_one that is never true: no equation is recognised as 1 = 1.
is_one_never(poly) == FALSE

is_one(poly) == (Len(poly) = 1) /\ is_constant(Head(poly))

\* is_zero_or_one without its is_one half.
is_zero_or_one_zero_only(poly) == is_zero(poly)

is_zero_or_one(poly) == is_zero(poly) \/ is_one(poly)

\* -------------------------------------------------------- ZeroSubstitution
EmptySubstitution ==
    [zeroed_ps |-> <<>>, zeroed_qs |-> <<>>, zeroed_terms |-> <<>>]

Sub_is_empty(sub) ==
    /\ sub.zeroed_ps = <<>>
    /\ sub.zeroed_qs = <<>>
    /\ sub.zeroed_terms = <<>>

Sub_set_p_zero(sub, index) ==
    [sub EXCEPT !.zeroed_ps = Append(@, index)]

Sub_set_q_zero(sub, index) ==
    [sub EXCEPT !.zeroed_qs = Append(@, index)]

\* set_zero concluding p = 0 from a quadratic monomial p * q = 0.
Sub_set_zero_pins_factor(sub, term) ==
    IF has_p(term) THEN Sub_set_p_zero(sub, term[1])
    ELSE IF has_q(term) THEN Sub_set_q_zero(sub, term[2])
    ELSE sub

Sub_set_zero(sub, term) ==
    IF is_quadratic(term) THEN [sub EXCEPT !.zeroed_terms = Append(@, term)]
    ELSE IF has_p(term) THEN Sub_set_p_zero(sub, term[1])
    ELSE IF has_q(term) THEN Sub_set_q_zero(sub, term[2])
    ELSE sub

RECURSIVE Sub_set_zero_poly(_, _)
Sub_set_zero_poly(sub, poly) ==
    IF poly = <<>> THEN sub
    ELSE Sub_set_zero_poly(Sub_set_zero(sub, Head(poly)), Tail(poly))

is_zeroed_vars_only(sub, term) ==
    \/ contains(sub.zeroed_ps, term[1])
    \/ contains(sub.zeroed_qs, term[2])

is_zeroed(sub, term) ==
    \/ contains(sub.zeroed_ps, term[1])
    \/ contains(sub.zeroed_qs, term[2])
    \/ contains(sub.zeroed_terms, term)

\* ------------------------------------------------------------------ System
EmptySystem ==
    [active_ps |-> <<>>, active_qs |-> <<>>, zeros |-> <<>>,
     ones |-> <<>>, unknown |-> <<>>]

\* The constructor's loop keeping the index of a leading coefficient.
InitialEquation_keeps_leading(p_degree, q_degree, d) ==
    LET lo == IF d > q_degree THEN d - q_degree ELSE 0
        hi == IF d < p_degree THEN d ELSE p_degree
    IN [k \in 1..(hi - lo + 1) |-> Term(lo + k - 1, d - (lo + k - 1))]

\* The terms of degree d, in the order the nested loops emplace them
\* (p ascending): p ranges over max(0, d - q_degree) .. min(p_degree, d).
InitialEquation(p_degree, q_degree, d) ==
    LET lo == IF d > q_degree THEN d - q_degree ELSE 0
        hi == IF d < p_degree THEN d ELSE p_degree
    IN [k \in 1..(hi - lo + 1) |->
            LET p == lo + k - 1
                q == d - p
            IN Term(IF p = p_degree THEN 0 ELSE p,
                    IF q = q_degree THEN 0 ELSE q)]

\* The constructor emplacing every monomial twice.
System_emplaces_twice(p_degree, q_degree) ==
    [active_ps |-> [k \in 1..(p_degree - 1) |-> k],
     active_qs |-> [k \in 1..(q_degree - 1) |-> k],
     zeros     |-> <<>>,
     ones      |-> <<>>,
     unknown   |-> [d \in 1..(p_degree + q_degree - 1) |->
                        InitialEquation(p_degree, q_degree, d)
                            \o InitialEquation(p_degree, q_degree, d)]]

System(p_degree, q_degree) ==
    [active_ps |-> [k \in 1..(p_degree - 1) |-> k],
     active_qs |-> [k \in 1..(q_degree - 1) |-> k],
     zeros     |-> <<>>,
     ones      |-> <<>>,
     unknown   |-> [d \in 1..(p_degree + q_degree - 1) |->
                        InitialEquation(p_degree, q_degree, d)]]

is_empty(system) ==
    /\ system.active_ps = <<>>
    /\ system.active_qs = <<>>
    /\ system.zeros = <<>>
    /\ system.ones = <<>>
    /\ system.unknown = <<>>

CountConstants(poly) ==
    Cardinality({k \in 1..Len(poly) : is_constant(poly[k])})

\* has_unsatisfiable_equation without its loop over the unknown equations.
has_unsatisfiable_equation_ones_only(system) ==
    \E n \in 1..Len(system.ones) :
        \/ system.ones[n] = <<>>
        \/ CountConstants(system.ones[n]) >= 2

has_unsatisfiable_equation(system) ==
    \/ \E n \in 1..Len(system.ones) :
          \/ system.ones[n] = <<>>
          \/ CountConstants(system.ones[n]) >= 2
    \/ \E n \in 1..Len(system.unknown) :
          CountConstants(system.unknown[n]) >= 2

\* is_solved that collects solved variables from unknown only.
is_solved_ignores_ones(system) ==
    LET solved_in_unknown(axis) ==
            {system.unknown[n][1][axis] : n \in
                {m \in 1..Len(system.unknown) :
                    /\ Len(system.unknown[m]) = 1
                    /\ is_linear(system.unknown[m][1])}}
    IN /\ \A k \in 1..Len(system.active_ps) :
              system.active_ps[k] \in solved_in_unknown(1) \ {0}
       /\ \A k \in 1..Len(system.active_qs) :
              system.active_qs[k] \in solved_in_unknown(2) \ {0}

is_solved(system) ==
    LET solved_in_ones(axis) ==
            {system.ones[n][1][axis] : n \in
                {m \in 1..Len(system.ones) : Len(system.ones[m]) = 1}}
        solved_in_unknown(axis) ==
            {system.unknown[n][1][axis] : n \in
                {m \in 1..Len(system.unknown) :
                    /\ Len(system.unknown[m]) = 1
                    /\ is_linear(system.unknown[m][1])}}
        solved_ps == (solved_in_ones(1) \cup solved_in_unknown(1)) \ {0}
        solved_qs == (solved_in_ones(2) \cup solved_in_unknown(2)) \ {0}
    IN /\ \A k \in 1..Len(system.active_ps) :
              system.active_ps[k] \in solved_ps
       /\ \A k \in 1..Len(system.active_qs) :
              system.active_qs[k] \in solved_qs

\* The test that ends the ones loop of apply, set_p_zero, set_q_zero,
\* set_p_one and set_q_one: sub_polys are the equations after the term loop.
FilterOnes_drop_empty(sub_polys) ==
    SelectSeq(sub_polys, LAMBDA sub_poly : ~is_zero_or_one(sub_poly))

FilterOnes(sub_polys) ==
    SelectSeq(sub_polys, LAMBDA sub_poly : ~is_one(sub_poly))

\* The test that ends the unknown loop of the same five transformations.
FilterUnknown(sub_polys) ==
    SelectSeq(sub_polys, LAMBDA sub_poly : ~is_zero_or_one(sub_poly))

apply(system, sub) ==
    LET kept(poly) == SelectSeq(poly, LAMBDA term : ~is_zeroed(sub, term))
    IN [active_ps |-> drop_all(system.active_ps, sub.zeroed_ps),
        active_qs |-> drop_all(system.active_qs, sub.zeroed_qs),
        zeros     |-> SelectSeq(system.zeros,
                                LAMBDA term : ~is_zeroed(sub, term))
                      \o SelectSeq(sub.zeroed_terms,
                                LAMBDA term :
                                   /\ ~contains(sub.zeroed_ps, term[1])
                                   /\ ~contains(sub.zeroed_qs, term[2])),
        ones      |-> FilterOnes([n \in 1..Len(system.ones) |->
                                    kept(system.ones[n])]),
        unknown   |-> FilterUnknown([n \in 1..Len(system.unknown) |->
                                    kept(system.unknown[n])])]

\* set_p_zero with the monomial conversion of set_p_one in place of the
\* removal of the monomials of p_index.
set_p_zero_converts(system, p_index) ==
    LET kept(poly) ==
            [k \in 1..Len(poly) |->
                IF poly[k][1] = p_index THEN Term(0, poly[k][2]) ELSE poly[k]]
    IN [active_ps |-> drop(system.active_ps, p_index),
        active_qs |-> system.active_qs,
        zeros     |-> SelectSeq(system.zeros,
                                LAMBDA term : term[1] # p_index),
        ones      |-> FilterOnes([n \in 1..Len(system.ones) |->
                                    kept(system.ones[n])]),
        unknown   |-> FilterUnknown([n \in 1..Len(system.unknown) |->
                                    kept(system.unknown[n])])]

set_p_zero(system, p_index) ==
    LET kept(poly) == SelectSeq(poly, LAMBDA term : term[1] # p_index)
    IN [active_ps |-> drop(system.active_ps, p_index),
        active_qs |-> system.active_qs,
        zeros     |-> SelectSeq(system.zeros,
                                LAMBDA term : term[1] # p_index),
        ones      |-> FilterOnes([n \in 1..Len(system.ones) |->
                                    kept(system.ones[n])]),
        unknown   |-> FilterUnknown([n \in 1..Len(system.unknown) |->
                                    kept(system.unknown[n])])]

set_q_zero(system, q_index) ==
    LET kept(poly) == SelectSeq(poly, LAMBDA term : term[2] # q_index)
    IN [active_ps |-> system.active_ps,
        active_qs |-> drop(system.active_qs, q_index),
        zeros     |-> SelectSeq(system.zeros,
                                LAMBDA term : term[2] # q_index),
        ones      |-> FilterOnes([n \in 1..Len(system.ones) |->
                                    kept(system.ones[n])]),
        unknown   |-> FilterUnknown([n \in 1..Len(system.unknown) |->
                                    kept(system.unknown[n])])]

ZeroCofactors_forgotten(sub, zeros, axis, index) == sub

RECURSIVE ZeroCofactors(_, _, _, _)
ZeroCofactors(sub, zeros, axis, index) ==
    IF zeros = <<>> THEN sub
    ELSE LET term == Head(zeros)
             next == IF term[axis] = index
                     THEN IF axis = 1
                          THEN Sub_set_q_zero(sub, term[2])
                          ELSE Sub_set_p_zero(sub, term[1])
                     ELSE sub
         IN ZeroCofactors(next, Tail(zeros), axis, index)

\* set_p_one that leaves the monomials of p_index as they are.
set_p_one_keeps_monomials(system, p_index) ==
    LET transformation ==
            ZeroCofactors(EmptySubstitution, system.zeros, 1, p_index)
        result ==
            [active_ps |-> drop(system.active_ps, p_index),
             active_qs |-> system.active_qs,
             zeros     |-> SelectSeq(system.zeros,
                                     LAMBDA term : term[1] # p_index),
             ones      |-> FilterOnes(system.ones),
             unknown   |-> FilterUnknown(system.unknown)]
    IN apply(result, transformation)

set_p_one(system, p_index) ==
    LET convert(term) ==
            Term(IF term[1] = p_index THEN 0 ELSE term[1], term[2])
        converted(poly) == [k \in 1..Len(poly) |-> convert(poly[k])]
        transformation ==
            ZeroCofactors(EmptySubstitution, system.zeros, 1, p_index)
        result ==
            [active_ps |-> drop(system.active_ps, p_index),
             active_qs |-> system.active_qs,
             zeros     |-> SelectSeq(system.zeros,
                                     LAMBDA term : term[1] # p_index),
             ones      |-> FilterOnes([n \in 1..Len(system.ones) |->
                                        converted(system.ones[n])]),
             unknown   |-> FilterUnknown([n \in 1..Len(system.unknown) |->
                                        converted(system.unknown[n])])]
    IN apply(result, transformation)

set_q_one(system, q_index) ==
    LET convert(term) ==
            Term(term[1], IF term[2] = q_index THEN 0 ELSE term[2])
        converted(poly) == [k \in 1..Len(poly) |-> convert(poly[k])]
        transformation ==
            ZeroCofactors(EmptySubstitution, system.zeros, 2, q_index)
        result ==
            [active_ps |-> system.active_ps,
             active_qs |-> drop(system.active_qs, q_index),
             zeros     |-> SelectSeq(system.zeros,
                                     LAMBDA term : term[2] # q_index),
             ones      |-> FilterOnes([n \in 1..Len(system.ones) |->
                                        converted(system.ones[n])]),
             unknown   |-> FilterUnknown([n \in 1..Len(system.unknown) |->
                                        converted(system.unknown[n])])]
    IN apply(result, transformation)

constrains_p(system, p_index) ==
    \/ \E k \in 1..Len(system.zeros) : system.zeros[k][1] = p_index
    \/ \E n \in 1..Len(system.ones) :
          \E k \in 1..Len(system.ones[n]) : system.ones[n][k][1] = p_index
    \/ \E n \in 1..Len(system.unknown) :
          \E k \in 1..Len(system.unknown[n]) :
              system.unknown[n][k][1] = p_index

constrains_q(system, q_index) ==
    \/ \E k \in 1..Len(system.zeros) : system.zeros[k][2] = q_index
    \/ \E n \in 1..Len(system.ones) :
          \E k \in 1..Len(system.ones[n]) : system.ones[n][k][2] = q_index
    \/ \E n \in 1..Len(system.unknown) :
          \E k \in 1..Len(system.unknown[n]) :
              system.unknown[n][k][2] = q_index

has_free_variable(system) ==
    \/ \E k \in 1..Len(system.active_ps) :
          ~constrains_p(system, system.active_ps[k])
    \/ \E k \in 1..Len(system.active_qs) :
          ~constrains_q(system, system.active_qs[k])

\* find_unknown_variable returning the first single monomial, linear or not.
find_unknown_variable_any_single(system) ==
    LET hits == {n \in 1..Len(system.unknown) : Len(system.unknown[n]) = 1}
    IN IF hits = {} THEN Term(0, 0)
       ELSE system.unknown[CHOOSE n \in hits : \A m \in hits : n <= m][1]

find_unknown_variable(system) ==
    LET hits == {n \in 1..Len(system.unknown) :
                    /\ Len(system.unknown[n]) = 1
                    /\ is_linear(system.unknown[n][1])}
    IN IF hits = {} THEN Term(0, 0)
       ELSE system.unknown[CHOOSE n \in hits : \A m \in hits : n <= m][1]

\* ---------------------------------------------------------- Simplification
\* The System produced by the forced-one rule for the ones equation n.
ForcedOne(system, n) ==
    LET term == system.ones[n][1]
    IN IF is_quadratic(term)
       THEN set_q_one(set_p_one(system, term[1]), term[2])
       ELSE IF has_p(term) THEN set_p_one(system, term[1])
       ELSE set_q_one(system, term[2])

\* The forced-one loop looking at linear monomials only.
ForcedOneCandidates_linear_only(system) ==
    {n \in 1..Len(system.ones) :
        /\ Len(system.ones[n]) = 1
        /\ is_linear(system.ones[n][1])}

\* Indices of the ones equations the forced-one loop can return from.
ForcedOneCandidates(system) ==
    {n \in 1..Len(system.ones) :
        /\ Len(system.ones[n]) = 1
        /\ ~is_constant(system.ones[n][1])}

RECURSIVE CollectConstantEquations(_, _)
CollectConstantEquations(sub, polys) ==
    IF polys = <<>> THEN sub
    ELSE CollectConstantEquations(
            IF \E k \in 1..Len(Head(polys)) : is_constant(Head(polys)[k])
            THEN Sub_set_zero_poly(sub, Head(polys))
            ELSE sub,
            Tail(polys))

\* The batch built by the two constant-term loops (ones first, then unknown).
ConstantSubstitution(system) ==
    CollectConstantEquations(
        CollectConstantEquations(EmptySubstitution, system.ones),
        system.unknown)

StepResult(kind, rule, next) == [kind |-> kind, rule |-> rule, next |-> next]

\* What one call of simplify does before it returns or calls itself again:
\* kind "recurse" is the tail call simplify(next), "fixed" returns the System
\* next, "unsat" / "solved" / "empty" return std::nullopt.
Continue(rule, result) ==
    IF is_empty(result) THEN StepResult("empty", rule, result)
    ELSE StepResult("recurse", rule, result)

\* simplify returning after its first rewriting instead of calling itself.
simplify_step_no_restart(system) ==
    IF has_unsatisfiable_equation(system)
    THEN StepResult("unsat", "none", system)
    ELSE IF is_solved(system) THEN StepResult("solved", "none", system)
    ELSE IF ForcedOneCandidates(system) # {}
    THEN StepResult("fixed", "one",
            ForcedOne(system, CHOOSE n \in ForcedOneCandidates(system) :
                \A m \in ForcedOneCandidates(system) : n <= m))
    ELSE StepResult("fixed", "const",
            apply(system, ConstantSubstitution(system)))

simplify_step(system) ==
    IF has_unsatisfiable_equation(system)
    THEN StepResult("unsat", "none", system)
    ELSE IF is_solved(system) THEN StepResult("solved", "none", system)
    ELSE IF ForcedOneCandidates(system) # {}
    THEN Continue("one",
            ForcedOne(system, CHOOSE n \in ForcedOneCandidates(system) :
                \A m \in ForcedOneCandidates(system) : n <= m))
    ELSE IF Sub_is_empty(ConstantSubstitution(system))
    THEN StepResult("fixed", "none", system)
    ELSE Continue("const", apply(system, ConstantSubstitution(system)))

\* std::optional<System>
nullopt == [has_value |-> FALSE, value |-> EmptySystem]

Some(system) == [has_value |-> TRUE, value |-> system]

\* simplify returning the rewritten System instead of calling itself on it.
simplify_return_no_recursion(system) ==
    LET step == simplify_step(system)
    IN IF step.kind = "recurse"
       THEN StepResult("fixed", step.rule, step.next)
       ELSE step

\* The call of simplify that returns: the last one of the chain of tail calls.
RECURSIVE simplify_return(_)
simplify_return(system) ==
    LET step == simplify_step(system)
    IN IF step.kind = "recurse" THEN simplify_return(step.next) ELSE step

simplify(system) ==
    LET step == simplify_return(system)
    IN IF step.kind = "fixed" THEN Some(step.next) ELSE nullopt

\* ------------------------------------------------------------ Search driver
move_unknown_to_zero(system, index) ==
    apply(system, Sub_set_zero_poly(EmptySubstitution, system.unknown[index]))

\* move_unknown_to_one that copies unknown whole instead of skipping index.
move_unknown_to_one_keeps(system, index) ==
    [active_ps |-> system.active_ps,
     active_qs |-> system.active_qs,
     zeros     |-> system.zeros,
     ones      |-> Append(system.ones, system.unknown[index]),
     unknown   |-> system.unknown]

move_unknown_to_one(system, index) ==
    [active_ps |-> system.active_ps,
     active_qs |-> system.active_qs,
     zeros     |-> system.zeros,
     ones      |-> Append(system.ones, system.unknown[index]),
     unknown   |-> [n \in 1..(Len(system.unknown) - 1) |->
                        IF n < index THEN system.unknown[n]
                        ELSE system.unknown[n + 1]]]

\* The index chosen by the best_index loop: the first shortest equation.
best_index(system) ==
    CHOOSE k \in 1..Len(system.unknown) :
        /\ \A m \in 1..Len(system.unknown) :
              Len(system.unknown[k]) <= Len(system.unknown[m])
        /\ \A m \in 1..(k - 1) :
              Len(system.unknown[k]) < Len(system.unknown[m])

\* analyze passing move_unknown_to_one to both of its recursive calls.
BranchOf_one_twice(simplified) ==
    LET var == find_unknown_variable(simplified)
    IN IF has_p(var)
       THEN [kind |-> "variable", term |-> var, index |-> 0,
             false_child |-> set_p_zero(simplified, var[1]),
             true_child  |-> set_p_one(simplified, var[1])]
       ELSE IF has_q(var)
       THEN [kind |-> "variable", term |-> var, index |-> 0,
             false_child |-> set_q_zero(simplified, var[2]),
             true_child  |-> set_q_one(simplified, var[2])]
       ELSE IF simplified.zeros # <<>>
       THEN [kind |-> "zeros", term |-> Head(simplified.zeros), index |-> 0,
             false_child |-> set_p_zero(simplified, Head(simplified.zeros)[1]),
             true_child  |-> set_q_zero(simplified, Head(simplified.zeros)[2])]
       ELSE IF simplified.unknown # <<>>
       THEN [kind |-> "unknown", term |-> Term(0, 0),
             index |-> best_index(simplified),
             false_child |->
                 move_unknown_to_one(simplified, best_index(simplified)),
             true_child  |->
                 move_unknown_to_one(simplified, best_index(simplified))]
       ELSE [kind |-> "leaf", term |-> Term(0, 0), index |-> 0,
             false_child |-> EmptySystem, true_child |-> EmptySystem]

\* The branch analyze takes on a simplified System: its kind and, for a
\* case split, the Systems passed to the false and to the true recursive call.
BranchOf(simplified) ==
    LET var == find_unknown_variable(simplified)
    IN IF has_p(var)
       THEN [kind |-> "variable", term |-> var, index |-> 0,
             false_child |-> set_p_zero(simplified, var[1]),
             true_child  |-> set_p_one(simplified, var[1])]
       ELSE IF has_q(var)
       THEN [kind |-> "variable", term |-> var, index |-> 0,
             false_child |-> set_q_zero(simplified, var[2]),
             true_child  |-> set_q_one(simplified, var[2])]
       ELSE IF simplified.zeros # <<>>
       THEN [kind |-> "zeros", term |-> Head(simplified.zeros), index |-> 0,
             false_child |-> set_p_zero(simplified, Head(simplified.zeros)[1]),
             true_child  |-> set_q_zero(simplified, Head(simplified.zeros)[2])]
       ELSE IF simplified.unknown # <<>>
       THEN [kind |-> "unknown", term |-> Term(0, 0),
             index |-> best_index(simplified),
             false_child |->
                 move_unknown_to_zero(simplified, best_index(simplified)),
             true_child  |->
                 move_unknown_to_one(simplified, best_index(simplified))]
       ELSE [kind |-> "leaf", term |-> Term(0, 0), index |-> 0,
             false_child |-> EmptySystem, true_child |-> EmptySystem]

\* ------------------------------- DeepEquationReducer (optional-returning)
\* Its System has no active-variable lists; its transformations return
\* std::optional<System>.
Deep_nullopt ==
    [has_value |-> FALSE,
     value |-> [zeros |-> <<>>, ones |-> <<>>, unknown |-> <<>>]]

Deep_System(system) ==
    [zeros |-> system.zeros, ones |-> system.ones, unknown |-> system.unknown]

\* is_constant computed by the loops of apply / set_p_zero / set_q_zero:
\* no kept term is non-constant.
Deep_all_constant(transformed) ==
    \A k \in 1..Len(transformed) : is_constant(transformed[k])

Deep_filter(ones, unknown) ==
    IF \/ \E n \in 1..Len(ones) :
             Deep_all_constant(ones[n]) /\ Len(ones[n]) # 1
       \/ \E n \in 1..Len(unknown) :
             Deep_all_constant(unknown[n]) /\ Len(unknown[n]) > 1
    THEN [ok |-> FALSE, ones |-> <<>>, unknown |-> <<>>]
    ELSE [ok |-> TRUE,
          ones |-> SelectSeq(ones, LAMBDA e : ~Deep_all_constant(e)),
          unknown |-> SelectSeq(unknown, LAMBDA e : ~Deep_all_constant(e))]

Deep_apply(system, transformation) ==
    LET kept(poly) ==
            SelectSeq(poly, LAMBDA term : ~is_zeroed(transformation, term))
        filtered ==
            Deep_filter([n \in 1..Len(system.ones) |-> kept(system.ones[n])],
                        [n \in 1..Len(system.unknown) |->
                            kept(system.unknown[n])])
    IN IF ~filtered.ok THEN Deep_nullopt
       ELSE [has_value |-> TRUE,
             value |->
               [zeros |-> SelectSeq(system.zeros,
                            LAMBDA term : ~is_zeroed(transformation, term))
                          \o SelectSeq(transformation.zeroed_terms,
                            LAMBDA term :
                              /\ ~contains(transformation.zeroed_ps, term[1])
                              /\ ~contains(transformation.zeroed_qs, term[2])),
                ones |-> filtered.ones,
                unknown |-> filtered.unknown]]

Deep_set_p_zero(system, p_index) ==
    LET kept(poly) == SelectSeq(poly, LAMBDA term : term[1] # p_index)
        filtered ==
            Deep_filter([n \in 1..Len(system.ones) |-> kept(system.ones[n])],
                        [n \in 1..Len(system.unknown) |->
                            kept(system.unknown[n])])
    IN IF ~filtered.ok THEN Deep_nullopt
       ELSE [has_value |-> TRUE,
             value |->
               [zeros |-> SelectSeq(system.zeros,
                            LAMBDA term : term[1] # p_index),
                ones |-> filtered.ones,
                unknown |-> filtered.unknown]]

Deep_set_q_zero(system, q_index) ==
    LET kept(poly) == SelectSeq(poly, LAMBDA term : term[2] # q_index)
        filtered ==
            Deep_filter([n \in 1..Len(system.ones) |-> kept(system.ones[n])],
                        [n \in 1..Len(system.unknown) |->
                            kept(system.unknown[n])])
    IN IF ~filtered.ok THEN Deep_nullopt
       ELSE [has_value |-> TRUE,
             value |->
               [zeros |-> SelectSeq(system.zeros,
                            LAMBDA term : term[2] # q_index),
                ones |-> filtered.ones,
                unknown |-> filtered.unknown]]

\* ---------------------------------------- In-place variant: System<M, N>
\* A term is <<p_index, q_index>>; an index 0 stands for the factor 1.
TERM_ZERO == <<255, 255>>

TERM_ONE == <<0, 0>>

\* The constructor with the last branch's loop starting at j = 1.
Packed_InitialTerms_no_offset(M, N, d) ==
    IF d < M
    THEN [j \in 1..(d - 1) |-> <<j, d - j>>] \o << <<d, 0>>, <<0, d>> >>
    ELSE IF d = M
    THEN [j \in 1..(M - 1) |-> <<j, d - j>>] \o << <<0, M>>, TERM_ONE >>
    ELSE IF d < N
    THEN [j \in 1..(M - 1) |-> <<j, d - j>>]
             \o << <<0, d - M>>, <<0, d>> >>
    ELSE IF d = N
    THEN [j \in 1..(M - 1) |-> <<j, d - j>>]
             \o << <<0, N - M>>, TERM_ONE >>
    ELSE [j \in 1..(M - 1) |-> <<j, d - j>>]
             \o << <<d - N, 0>>, <<0, d - M>> >>

\* The terms the constructor writes into equation d (1-based: e = d - 1).
Packed_InitialTerms(M, N, d) ==
    IF d < M
    THEN [j \in 1..(d - 1) |-> <<j, d - j>>] \o << <<d, 0>>, <<0, d>> >>
    ELSE IF d = M
    THEN [j \in 1..(M - 1) |-> <<j, d - j>>] \o << <<0, M>>, TERM_ONE >>
    ELSE IF d < N
    THEN [j \in 1..(M - 1) |-> <<j, d - j>>]
             \o << <<0, d - M>>, <<0, d>> >>
    ELSE IF d = N
    THEN [j \in 1..(M - 1) |-> <<j, d - j>>]
             \o << <<0, N - M>>, TERM_ONE >>
    ELSE [k \in 1..(M - 1 - (d - N)) |-> <<d - N + k, N - k>>]
             \o << <<d - N, 0>>, <<0, d - M>> >>

\* System<M, N>(): every equation padded with TERM_ZERO to M + 1 terms.
Packed_System(M, N) ==
    [lhs |-> [d \in 1..(M + N - 1) |->
                 LET terms == Packed_InitialTerms(M, N, d)
                 IN terms \o [k \in 1..(M + 1 - Len(terms)) |-> TERM_ZERO]],
     rhs |-> [d \in 1..(M + N - 1) |-> "ZERO_OR_ONE"],
     p |-> [k \in 1..(M - 1) |-> "UNKNOWN"],
     q |-> [k \in 1..(N - 1) |-> "UNKNOWN"]]

Packed_set_p_zero(system, p_index) ==
    [system EXCEPT
       !.p[p_index] = "ZERO",
       !.lhs = [e \in DOMAIN @ |-> [t \in DOMAIN @[e] |->
                  IF @[e][t][1] = p_index THEN TERM_ZERO ELSE @[e][t]]]]

Packed_set_q_zero(system, q_index) ==
    [system EXCEPT
       !.q[q_index] = "ZERO",
       !.lhs = [e \in DOMAIN @ |-> [t \in DOMAIN @[e] |->
                  IF @[e][t][2] = q_index THEN TERM_ZERO ELSE @[e][t]]]]

Packed_set_p_one(system, p_index) ==
    [system EXCEPT
       !.p[p_index] = "ONE",
       !.lhs = [e \in DOMAIN @ |-> [t \in DOMAIN @[e] |->
                  IF @[e][t][1] = p_index THEN <<0, @[e][t][2]>>
                  ELSE @[e][t]]]]

Packed_set_q_one(system, q_index) ==
    [system EXCEPT
       !.q[q_index] = "ONE",
       !.lhs = [e \in DOMAIN @ |-> [t \in DOMAIN @[e] |->
                  IF @[e][t][2] = q_index THEN <<@[e][t][1], 0>>
                  ELSE @[e][t]]]]

\* set_p_zero_or_one / set_q_zero_or_one: the System after the call; the
\* returned bool is whether it differs from the System before.
Packed_set_p_zero_or_one(system, p_index) ==
    IF system.p[p_index] = "UNKNOWN"
    THEN [system EXCEPT !.p[p_index] = "ZERO_OR_ONE"]
    ELSE system

Packed_set_q_zero_or_one(system, q_index) ==
    IF system.q[q_index] = "UNKNOWN"
    THEN [system EXCEPT !.q[q_index] = "ZERO_OR_ONE"]
    ELSE system

\* set_case: the loop runs i = 1 .. M - 1 in order.
RECURSIVE Packed_set_case_from(_, _, _, _, _)
Packed_set_case_from(system, M, N, bits, i) ==
    IF i > M - 1 THEN system
    ELSE Packed_set_case_from(
             IF bits[i]
             THEN Packed_set_q_zero(Packed_set_q_zero(system, M - i), N - i)
             ELSE Packed_set_p_zero(system, i),
             M, N, bits, i + 1)

Packed_set_case(system, M, N, bits) ==
    Packed_set_case_from(
        Packed_set_q_zero(Packed_set_q_zero(system, M), N - M),
        M, N, bits, 1)

Packed_is_unknown(system, term) ==
    /\ term # TERM_ZERO
    /\ \/ term[1] # 0 /\ system.p[term[1]] = "UNKNOWN"
       \/ term[2] # 0 /\ system.q[term[2]] = "UNKNOWN"

\* is_zero_or_one(term) is called by simplify and defined nowhere in the
\* sources; Phase 4 looks for the one term of an equation that is not yet
\* known to be 0 or 1, as Phase 3 does with is_unknown.
Packed_is_zero_or_one(system, term) == ~Packed_is_unknown(system, term)

Packed_has_unknown_variable(system) ==
    \/ \E k \in DOMAIN system.p : system.p[k] = "UNKNOWN"
    \/ \E k \in DOMAIN system.q : system.q[k] = "UNKNOWN"

Packed_Nonzero(row) == {t \in DOMAIN row : row[t] # TERM_ZERO}

Packed_First(indices) == CHOOSE t \in indices : \A u \in indices : t <= u

\* Phase 1 of simplify from equation e on: the value returned (FALSE when
\* an equation is found inconsistent) and the System as it is then.
RECURSIVE Packed_phase1(_, _)
Packed_phase1(system, e) ==
    IF e > Len(system.lhs) THEN [result |-> TRUE, system |-> system]
    ELSE LET row == system.lhs[e]
             ones == {t \in DOMAIN row : row[t] = TERM_ONE}
             cleared == IF Packed_Nonzero(row) = {}
                        THEN [system EXCEPT !.rhs[e] = "ZERO"]
                        ELSE system
         IN IF Cardinality(ones) >= 2
            THEN [result |-> FALSE, system |-> system]
            ELSE IF Packed_Nonzero(row) = {} /\ system.rhs[e] = "ONE"
            THEN [result |-> FALSE, system |-> system]
            ELSE IF ones = {} THEN Packed_phase1(cleared, e + 1)
            ELSE IF cleared.rhs[e] = "ZERO"
            THEN [result |-> FALSE, system |-> cleared]
            ELSE Packed_phase1(
                     [cleared EXCEPT !.lhs[e][Packed_First(ones)] = TERM_ZERO,
                                     !.rhs[e] = "ZERO"],
                     e + 1)

\* Phase 2: the terms of equation e that solve for a variable.
Packed_Solving(system, e) ==
    LET row == system.lhs[e]
    IN IF system.rhs[e] = "ZERO"
       THEN {t \in DOMAIN row : row[t][2] = 0 \/ row[t][1] = 0}
       ELSE IF system.rhs[e] = "ONE" /\ Cardinality(Packed_Nonzero(row)) = 1
       THEN Packed_Nonzero(row)
       ELSE {}

\* Phase 2 applied at the first equation that has a solving term.
Packed_phase2(system) ==
    LET e == Packed_First(
                 {d \in DOMAIN system.lhs : Packed_Solving(system, d) # {}})
        term == system.lhs[e][Packed_First(Packed_Solving(system, e))]
        p_one == IF term[1] # 0 THEN Packed_set_p_one(system, term[1])
                 ELSE system
    IN IF system.rhs[e] = "ZERO"
       THEN IF term[2] = 0 THEN Packed_set_p_zero(system, term[1])
            ELSE Packed_set_q_zero(system, term[2])
       ELSE IF term[2] # 0 THEN Packed_set_q_one(p_one, term[2])
            ELSE p_one

\* Phase 3 from equation e on.
RECURSIVE Packed_phase3(_, _)
Packed_phase3(system, e) ==
    IF e > Len(system.lhs) THEN system
    ELSE LET row == system.lhs[e]
             unknown == {t \in DOMAIN row : Packed_is_unknown(system, row[t])}
             term == row[Packed_First(unknown)]
         IN Packed_phase3(
                IF Cardinality(unknown) # 1 THEN system
                ELSE IF term[2] = 0
                THEN Packed_set_p_zero_or_one(system, term[1])
                ELSE IF term[1] = 0
                THEN Packed_set_q_zero_or_one(system, term[2])
                ELSE system,
                e + 1)

\* Phase 4: the terms of equation e not known to be 0 or 1.
Packed_Open(system, e) ==
    {t \in DOMAIN system.lhs[e] :
        ~Packed_is_zero_or_one(system, system.lhs[e][t])}

\* Phase 4, first loop: the entries of lone_quadratic_terms other than the
\* filler TERM_ONE.
Packed_lone_quadratic_terms(system) ==
    {system.lhs[e][Packed_First(Packed_Open(system, e))] :
        e \in {d \in DOMAIN system.lhs :
                  Cardinality(Packed_Open(system, d)) = 1}}

\* Phase 4, second loop: the pairs <<p_index, q_index>> of the equations
\* x + y whose product is a lone quadratic term.
Packed_Pairs(system) ==
    {pair \in Packed_lone_quadratic_terms(system) :
        \E e \in DOMAIN system.lhs :
            LET row == system.lhs[e]
                nonzero == Packed_Nonzero(row)
                x == row[Packed_First(nonzero)]
                y == row[Packed_First(nonzero \ {Packed_First(nonzero)})]
            IN /\ Cardinality(nonzero) = 2
               /\ \/ x[2] = 0 /\ y[1] = 0 /\ pair = <<x[1], y[2]>>
                  \/ ~(x[2] = 0 /\ y[1] = 0) /\ x[1] = 0 /\ y[2] = 0
                         /\ pair = <<y[1], x[2]>>}

Packed_phase4(system) ==
    [system EXCEPT
       !.p = [k \in DOMAIN @ |->
                IF @[k] = "UNKNOWN"
                       /\ \E pair \in Packed_Pairs(system) : pair[1] = k
                THEN "ZERO_OR_ONE" ELSE @[k]],
       !.q = [k \in DOMAIN @ |->
                IF @[k] = "UNKNOWN"
                       /\ \E pair \in Packed_Pairs(system) : pair[2] = k
                THEN "ZERO_OR_ONE" ELSE @[k]]]

\* simplify(): the value returned and the System as the call leaves it.
RECURSIVE Packed_simplify(_)
Packed_simplify(system) ==
    LET one == Packed_phase1(system, 1)
        three == Packed_phase3(one.system, 1)
        four == Packed_phase4(three)
    IN IF ~one.result THEN one
       ELSE IF \E e \in DOMAIN one.system.lhs :
                  Packed_Solving(one.system, e) # {}
       THEN Packed_simplify(Packed_phase2(one.system))
       ELSE IF ~Packed_has_unknown_variable(three)
       THEN [result |-> TRUE, system |-> three]
       ELSE IF three # one.system THEN Packed_simplify(three)
       ELSE IF ~Packed_has_unknown_variable(four)
       THEN [result |-> TRUE, system |-> four]
       ELSE IF four # three THEN Packed_simplify(four)
       ELSE [result |-> TRUE, system |-> four]

\* std::vector: push_back copies its argument; back() is a reference to the
\* last element, so a member call on it changes that element only.
Packed_push_back_of_back(vector, system) ==
    Append(vector, IF vector = <<>> THEN system ELSE vector[Len(vector)])

Packed_push_back(vector, system) == Append(vector, system)

Packed_back(vector) == vector[Len(vector)]

Packed_set_back(vector, system) == [vector EXCEPT ![Len(vector)] = system]

\* One mutating call on a System.
Packed_call(system, call) ==
    CASE call.op = "set_p_zero" -> Packed_set_p_zero(system, call.index)
      [] call.op = "set_q_zero" -> Packed_set_q_zero(system, call.index)
      [] call.op = "set_p_one" -> Packed_set_p_one(system, call.index)
      [] call.op = "set_q_one" -> Packed_set_q_one(system, call.index)
      [] call.op = "rhs.set ZERO" ->
             [system EXCEPT !.rhs[call.index] = "ZERO"]
      [] call.op = "rhs.set ONE" ->
             [system EXCEPT !.rhs[call.index] = "ONE"]

Packed_Call(op, index) == [op |-> op, index |-> index]

\* find_case_split, third loop: the equations it can split on.
Packed_SplitEquations(system) ==
    {e \in DOMAIN system.lhs :
        \/ system.rhs[e] = "ZERO" /\ Packed_Nonzero(system.lhs[e]) # {}
        \/ system.rhs[e] = "ZERO_OR_ONE"
               /\ Cardinality(Packed_Nonzero(system.lhs[e])) = 1}

\* find_case_split: for each child it pushes, in the order of the pushes,
\* the calls it makes on the child; <<>> when it returns false.
Packed_case_split(system) ==
    LET ps == {k \in DOMAIN system.p : system.p[k] = "ZERO_OR_ONE"}
        qs == {k \in DOMAIN system.q : system.q[k] = "ZERO_OR_ONE"}
        es == Packed_SplitEquations(system)
        e == Packed_First(es)
        term == system.lhs[e][Packed_First(Packed_Nonzero(system.lhs[e]))]
        rs == {d \in DOMAIN system.rhs : system.rhs[d] = "ZERO_OR_ONE"}
    IN IF ps # {}
       THEN << <<Packed_Call("set_p_one", Packed_First(ps))>>,
               <<Packed_Call("set_p_zero", Packed_First(ps))>> >>
       ELSE IF qs # {}
       THEN << <<Packed_Call("set_q_one", Packed_First(qs))>>,
               <<Packed_Call("set_q_zero", Packed_First(qs))>> >>
       ELSE IF es # {} /\ system.rhs[e] = "ZERO"
       THEN << <<Packed_Call("set_q_zero", term[2])>>,
               <<Packed_Call("set_p_zero", term[1])>> >>
       ELSE IF es # {}
       THEN << <<Packed_Call("set_p_one", term[1]),
                 Packed_Call("set_q_one", term[2])>>,
               <<Packed_Call("set_q_zero", term[2])>>,
               <<Packed_Call("set_p_zero", term[1])>> >>
       ELSE IF rs # {}
       THEN << <<Packed_Call("rhs.set ONE", Packed_First(rs))>>,
               <<Packed_Call("rhs.set ZERO", Packed_First(rs))>> >>
       ELSE <<>>

\* stack.back().f() for the calls f of one child, in order.
RECURSIVE Packed_mutate_back(_, _)
Packed_mutate_back(vector, calls) ==
    IF calls = <<>> THEN vector
    ELSE Packed_mutate_back(
             Packed_set_back(vector,
                             Packed_call(Packed_back(vector), Head(calls))),
             Tail(calls))

\* find_case_split(stack, system): the stack after the pushes.
RECURSIVE Packed_push_children(_, _, _)
Packed_push_children(vector, system, children) ==
    IF children = <<>> THEN vector
    ELSE Packed_push_children(
             Packed_mutate_back(Packed_push_back(vector, system),
                                Head(children)),
             system, Tail(children))

Packed_find_case_split(vector, system) ==
    Packed_push_children(vector, system, Packed_case_split(system))

\* increment(bitset): the bitset after the call; false is returned when it
\* is all zero again.
RECURSIVE Packed_increment_from(_, _)
Packed_increment_from(bits, i) ==
    IF i > Len(bits) THEN bits
    ELSE IF bits[i] THEN Packed_increment_from([bits EXCEPT ![i] = FALSE],
                                               i + 1)
    ELSE [bits EXCEPT ![i] = TRUE]

increment(bits) == Packed_increment_from(bits, 1)

VARIABLES
    degrees,    \* <<i, j>>, the arguments of print_systems
    stack,      \* the activation records of analyze, root first
    case_id,    \* the std::vector<bool> shared by all calls of analyze
    leaves,     \* the Systems printed as leaves, in output order
    true_first, \* whether the true child is explored before the false one
    last_case,  \* the case identifier of the call of analyze entered last
    sys,        \* a System value held by a caller of the transformations
    last,       \* the last transformation applied: arguments and results
    nops,       \* number of transformations applied so far
    work_stack, \* in-place variant: the std::vector stack of analyze_case
    work_system, \* in-place variant: the local System of analyze_case
    work_pc,    \* in-place variant: position in analyze / analyze_case
    work_result, \* in-place variant: what the last loop iteration found
    case_index, \* in-place variant: the std::bitset<M - 1> of analyze
    reducer,    \* batch reducers: which program runs
    args,       \* batch reducers: the numbers read from argv[1] and argv[2]
    batch_pc,   \* batch reducers: position in main
    batch_stack, \* batch reducers: the std::vector stack of main
    output_file, \* batch reducers: state of the std::ofstream
    temp_file,  \* batch reducers: the file at "<filename>.temp"
    dest_file,  \* batch reducers: the file at "<filename>"
    dest_touched, \* batch reducers: file operations naming "<filename>"
    entry,      \* entry points: which program's main runs
    argv,       \* entry points: the numbers written in argv[1] and argv[2]
    main_pc,    \* entry points: position in main
    main_degrees, \* entry points: i and j of main
    build_pc,   \* construction: position in the constructor's loops
    build_p,    \* construction: the loop counter p
    build_q,    \* construction: the loop counter q
    build_index, \* construction: the index of the last element access
    build_wrapped \* construction: whether a loop counter has wrapped

search_vars == <<degrees, stack, case_id, leaves, true_first, last_case>>

ops_vars == <<sys, last, nops>>

packed_vars == <<work_stack, work_system, work_pc, work_result, case_index>>

reducer_vars ==
    <<reducer, args, batch_pc, batch_stack, output_file, temp_file, dest_file,
      dest_touched>>

main_vars == <<entry, argv, main_pc, main_degrees>>

build_vars == <<build_pc, build_p, build_q, build_index, build_wrapped>>

vars ==
    <<degrees, stack, case_id, leaves, true_first, last_case, sys, last, nops,
      work_stack, work_system, work_pc, work_result, case_index,
      reducer, args, batch_pc, batch_stack, output_file, temp_file, dest_file,
      dest_touched, entry, argv, main_pc, main_degrees,
      build_pc, build_p, build_q, build_index, build_wrapped>>

\* An activation record of analyze.  pc: "enter" (at the is_empty test),
\* "simplify" (inside the call of simplify, cur being the argument of the
\* innermost call), "decide" (simplified has a value), "first" / "second"
\* (inside the first / second recursive call), "done" (returned).
Frame(system) ==
    [system |-> system, pc |-> "enter", cur |-> system,
     simplified |-> nullopt, outcome |-> "none", rule |-> "none"]

Top == stack[Len(stack)]

SetTop(frame) == [stack EXCEPT ![Len(stack)] = frame]

NoOp ==
    [op |-> "none", index |-> 0, sub |-> EmptySubstitution,
     before |-> EmptySystem, after |-> EmptySystem, deep |-> Deep_nullopt]

Packed_none == [lhs |-> <<>>, rhs |-> <<>>, p |-> <<>>, q |-> <<>>]

PackedIdle ==
    /\ work_stack = <<>>
    /\ work_system = Packed_none
    /\ work_pc = "idle"
    /\ work_result = "none"
    /\ case_index = <<>>

\* A path of the file system: whether a file is there, which run wrote it
\* ("earlier" for a run before this one) and the leaves written to it.
NoFile == [exists |-> FALSE, writer |-> "none", written |-> <<>>]

MainIdle ==
    /\ entry = "none"
    /\ argv = <<1, 1>>
    /\ main_pc = "idle"
    /\ main_degrees = <<0, 0>>

BuildIdle ==
    /\ build_pc = "idle"
    /\ build_p = 0
    /\ build_q = 0
    /\ build_index = -1
    /\ build_wrapped = FALSE

ReducerIdle ==
    /\ reducer = "none"
    /\ args = <<1, 1>>
    /\ batch_pc = "idle"
    /\ batch_stack = <<>>
    /\ output_file = "closed"
    /\ temp_file = NoFile
    /\ dest_file = NoFile
    /\ dest_touched = 0

OpsIdle ==
    /\ sys = EmptySystem
    /\ last = NoOp
    /\ nops = 0

\* print_systems(i, j): analyze is called on System(i, j), empty case_id.
SearchInit ==
    /\ stack = <<Frame(System(degrees[1], degrees[2]))>>
    /\ case_id = <<>>
    /\ leaves = <<>>
    /\ last_case = <<>>

Init ==
    /\ degrees \in (1..MaxI) \X (1..MaxJ)
    /\ SearchInit
    /\ true_first = FALSE
    /\ OpsIdle
    /\ PackedIdle
    /\ ReducerIdle
    /\ MainIdle
    /\ BuildIdle

\* analyze, from its entry to the call of simplify.
Analyze ==
    /\ Top.pc = "enter"
    /\ stack' = SetTop(
          IF is_empty(Top.system)
          THEN [Top EXCEPT !.pc = "done", !.outcome = "trivial"]
          ELSE [Top EXCEPT !.pc = "simplify"])
    /\ last_case' = case_id
    /\ UNCHANGED <<degrees, case_id, leaves, true_first, ops_vars, packed_vars,
                 reducer_vars, main_vars, build_vars>>

\* One call of simplify: it returns (to analyze) or calls itself.
Simplify ==
    /\ Top.pc = "simplify"
    /\ LET step == simplify_step(Top.cur)
       IN stack' = SetTop(
            IF step.kind = "recurse"
            THEN [Top EXCEPT !.cur = step.next, !.rule = step.rule]
            ELSE IF step.kind = "fixed"
            THEN [Top EXCEPT !.pc = "decide", !.simplified = Some(step.next),
                             !.rule = step.rule]
            ELSE [Top EXCEPT !.pc = "done", !.outcome = step.kind,
                             !.rule = step.rule])
    /\ UNCHANGED <<degrees, case_id, leaves, true_first, last_case, ops_vars, packed_vars,
                 reducer_vars, main_vars, build_vars>>

EmitLeaf_overwrite(emitted, system) == <<system>>

EmitLeaf(emitted, system) == Append(emitted, system)

\* analyze making its recursive call for the true case first.
Decide_true_case_first ==
    /\ Top.pc = "decide"
    /\ LET branch == BranchOf(Top.simplified.value)
       IN IF branch.kind = "leaf"
          THEN /\ leaves' = EmitLeaf(leaves, Top.simplified.value)
               /\ stack' = SetTop([Top EXCEPT !.pc = "done",
                                              !.outcome = "leaf"])
               /\ UNCHANGED case_id
          ELSE /\ Len(stack) < MaxDepth
               /\ case_id' = Append(case_id, TRUE)
               /\ stack' = Append(
                      SetTop([Top EXCEPT !.pc = "first",
                                         !.outcome = branch.kind]),
                      Frame(branch.true_child))
               /\ leaves' = leaves
    /\ UNCHANGED <<degrees, true_first, last_case, ops_vars, packed_vars,
                 reducer_vars, main_vars, build_vars>>

\* analyze, from the return of simplify to its first recursive call, or to
\* its return when the simplified System is a leaf.
Decide ==
    /\ Top.pc = "decide"
    /\ LET branch == BranchOf(Top.simplified.value)
       IN IF branch.kind = "leaf"
          THEN /\ leaves' = EmitLeaf(leaves, Top.simplified.value)
               /\ stack' = SetTop([Top EXCEPT !.pc = "done",
                                              !.outcome = "leaf"])
               /\ UNCHANGED case_id
          ELSE /\ Len(stack) < MaxDepth
               /\ case_id' = Append(case_id, true_first)
               /\ stack' = Append(
                      SetTop([Top EXCEPT !.pc = "first",
                                         !.outcome = branch.kind]),
                      Frame(IF true_first THEN branch.true_child
                            ELSE branch.false_child))
               /\ leaves' = leaves
    /\ UNCHANGED <<degrees, true_first, last_case, ops_vars, packed_vars,
                 reducer_vars, main_vars, build_vars>>

\* analyze without the pop_back between its two recursive calls.
Return_no_pop ==
    /\ Len(stack) > 1
    /\ Top.pc = "done"
    /\ LET caller == stack[Len(stack) - 1]
           rest == SubSeq(stack, 1, Len(stack) - 2)
           branch == BranchOf(caller.simplified.value)
           popped == SubSeq(case_id, 1, Len(case_id) - 1)
       IN IF caller.pc = "first"
          THEN /\ case_id' = Append(case_id, ~true_first)
               /\ stack' = rest \o <<[caller EXCEPT !.pc = "second"],
                                     Frame(IF true_first
                                           THEN branch.false_child
                                           ELSE branch.true_child)>>
          ELSE /\ case_id' = popped
               /\ stack' = Append(rest, [caller EXCEPT !.pc = "done"])
    /\ UNCHANGED <<degrees, leaves, true_first, last_case, ops_vars, packed_vars,
                 reducer_vars, main_vars, build_vars>>

\* A recursive call of analyze returns to its caller, which makes its second
\* recursive call or returns itself.
Return ==
    /\ Len(stack) > 1
    /\ Top.pc = "done"
    /\ LET caller == stack[Len(stack) - 1]
           rest == SubSeq(stack, 1, Len(stack) - 2)
           branch == BranchOf(caller.simplified.value)
           popped == SubSeq(case_id, 1, Len(case_id) - 1)
       IN IF caller.pc = "first"
          THEN /\ case_id' = Append(popped, ~true_first)
               /\ stack' = rest \o <<[caller EXCEPT !.pc = "second"],
                                     Frame(IF true_first
                                           THEN branch.false_child
                                           ELSE branch.true_child)>>
          ELSE /\ case_id' = popped
               /\ stack' = Append(rest, [caller EXCEPT !.pc = "done"])
    /\ UNCHANGED <<degrees, leaves, true_first, last_case, ops_vars, packed_vars,
                 reducer_vars, main_vars, build_vars>>

Next == Analyze \/ Simplify \/ Decide \/ Return

Spec == Init /\ [][Next]_vars

\* The search is a loop-free single thread: every enabled step is taken.
FairSpec == Spec /\ WF_vars(Next)

\* The degree pairs, smallest first, whose search prints leaves.
LeafDegrees == {<<7, 13>>}

LeafInit ==
    /\ degrees \in LeafDegrees
    /\ SearchInit
    /\ true_first \in BOOLEAN
    /\ OpsIdle
    /\ PackedIdle
    /\ ReducerIdle
    /\ MainIdle
    /\ BuildIdle

SpecLeaf == LeafInit /\ [][Next]_vars

\* A pair whose root System is contradictory as constructed (i = j) and the
\* smallest pair whose search prints leaves.
DeepDegrees == {<<2, 2>>, <<7, 13>>}

DeepInit ==
    /\ degrees \in DeepDegrees
    /\ SearchInit
    /\ true_first = FALSE
    /\ OpsIdle
    /\ PackedIdle
    /\ ReducerIdle
    /\ MainIdle
    /\ BuildIdle

SpecDeep == DeepInit /\ [][Next]_vars

\* The steps open to a simplifier that applies the rewrite rules in any
\* order: forced-one propagation on any single-monomial ones equation, or
\* constant-term elimination; the two stop tests come first, as in simplify.
AnyOrderSteps(system) ==
    IF has_unsatisfiable_equation(system)
    THEN {StepResult("unsat", "none", system)}
    ELSE IF is_solved(system) THEN {StepResult("solved", "none", system)}
    ELSE LET forced == {Continue("one", ForcedOne(system, n)) :
                            n \in ForcedOneCandidates(system)}
             constant == IF Sub_is_empty(ConstantSubstitution(system))
                         THEN {}
                         ELSE {Continue("const",
                                 apply(system, ConstantSubstitution(system)))}
         IN IF forced \cup constant = {}
            THEN {StepResult("fixed", "none", system)}
            ELSE forced \cup constant

SimplifyAnyOrder ==
    /\ Top.pc = "simplify"
    /\ \E step \in AnyOrderSteps(Top.cur) :
          stack' = SetTop(
            IF step.kind = "recurse"
            THEN [Top EXCEPT !.cur = step.next, !.rule = step.rule]
            ELSE IF step.kind = "fixed"
            THEN [Top EXCEPT !.pc = "decide", !.simplified = Some(step.next),
                             !.rule = step.rule]
            ELSE [Top EXCEPT !.pc = "done", !.outcome = step.kind,
                             !.rule = step.rule])
    /\ UNCHANGED <<degrees, case_id, leaves, true_first, last_case, ops_vars, packed_vars,
                 reducer_vars, main_vars, build_vars>>

AnyOrderNext == Analyze \/ SimplifyAnyOrder \/ Decide \/ Return

\* print_systems on a degree pair whose search meets Systems on which more
\* than one rule is applicable.
AnyOrderDegrees == {<<7, 15>>}

AnyOrderInit ==
    /\ degrees \in AnyOrderDegrees
    /\ SearchInit
    /\ true_first = FALSE
    /\ OpsIdle
    /\ PackedIdle
    /\ ReducerIdle
    /\ MainIdle
    /\ BuildIdle

SpecAnyOrder == AnyOrderInit /\ [][AnyOrderNext]_vars

Finished == Len(stack) = 1 /\ stack[1].pc = "done"

\* ------------------------------------- Transformations applied by a caller
\* The variable indices of the largest root System.
PIndices == 1..(OpsMaxI - 1)

QIndices == 1..(OpsMaxJ - 1)

\* The requests a caller can put into a ZeroSubstitution with set_zero.
Requests ==
    {Term(p, q) : p \in {0} \cup PIndices, q \in {0} \cup QIndices}
        \ {Term(0, 0)}

RECURSIVE Batches(_)
Batches(n) ==
    IF n = 0 THEN {EmptySubstitution}
    ELSE Batches(n - 1) \cup
         {Sub_set_zero(sub, term) : sub \in Batches(n - 1), term \in Requests}

OpsInit ==
    /\ degrees \in (1..OpsMaxI) \X (1..OpsMaxJ)
    /\ SearchInit
    /\ true_first = FALSE
    /\ sys = System(degrees[1], degrees[2])
    /\ last = NoOp
    /\ nops = 0
    /\ PackedIdle
    /\ ReducerIdle
    /\ MainIdle
    /\ BuildIdle

Record(op, index, sub, after, deep) ==
    /\ nops < MaxOps
    /\ nops' = nops + 1
    /\ sys' = after
    /\ last' = [op |-> op, index |-> index, sub |-> sub,
                before |-> sys, after |-> after, deep |-> deep]
    /\ UNCHANGED <<search_vars, packed_vars, reducer_vars, main_vars, build_vars>>

OpApply ==
    \E sub \in Batches(MaxBatch) :
        Record("apply", 0, sub, apply(sys, sub),
               Deep_apply(Deep_System(sys), sub))

OpSetPZero ==
    \E k \in PIndices :
        Record("set_p_zero", k, EmptySubstitution, set_p_zero(sys, k),
               Deep_set_p_zero(Deep_System(sys), k))

OpSetQZero ==
    \E k \in QIndices :
        Record("set_q_zero", k, EmptySubstitution, set_q_zero(sys, k),
               Deep_set_q_zero(Deep_System(sys), k))

OpSetPOne ==
    \E k \in PIndices :
        Record("set_p_one", k, EmptySubstitution, set_p_one(sys, k),
               Deep_nullopt)

OpSetQOne ==
    \E k \in QIndices :
        Record("set_q_one", k, EmptySubstitution, set_q_one(sys, k),
               Deep_nullopt)

OpMoveUnknownToZero ==
    \E index \in 1..Len(sys.unknown) :
        Record("move_unknown_to_zero", index, EmptySubstitution,
               move_unknown_to_zero(sys, index), Deep_nullopt)

OpMoveUnknownToOne ==
    \E index \in 1..Len(sys.unknown) :
        Record("move_unknown_to_one", index, EmptySubstitution,
               move_unknown_to_one(sys, index), Deep_nullopt)

OpsNext ==
    \/ OpApply
    \/ OpSetPZero
    \/ OpSetQZero
    \/ OpSetPOne
    \/ OpSetQOne
    \/ OpMoveUnknownToZero
    \/ OpMoveUnknownToOne

SpecOps == OpsInit /\ [][OpsNext]_vars

\* --------------------------------------- In-place variant: analyze<M, N>
\* The template arguments <<M, N>> are held in degrees.
PackedDegrees == {<<4, 8>>, <<8, 20>>}

\* analyze<M, N>(): case_index starts all zero.
PackedInit ==
    /\ degrees \in PackedDegrees
    /\ stack = <<>>
    /\ case_id = <<>>
    /\ leaves = <<>>
    /\ last_case = <<>>
    /\ true_first = FALSE
    /\ OpsIdle
    /\ ReducerIdle
    /\ MainIdle
    /\ BuildIdle
    /\ work_stack = <<>>
    /\ work_system = Packed_none
    /\ work_pc = "case"
    /\ work_result = "none"
    /\ case_index = [k \in 1..(degrees[1] - 1) |-> FALSE]

\* analyze_case, up to the loop: emplace_back and set_case on the back.
AnalyzeCase ==
    /\ work_pc = "case"
    /\ LET emplaced == Packed_push_back(
                           <<>>, Packed_System(degrees[1], degrees[2]))
       IN work_stack' = Packed_set_back(
             emplaced,
             Packed_set_case(Packed_back(emplaced), degrees[1], degrees[2],
                             case_index))
    /\ work_pc' = "loop"
    /\ work_result' = "none"
    /\ UNCHANGED <<work_system, case_index, search_vars, ops_vars, reducer_vars, main_vars, build_vars>>

\* analyze_case, loop head: system = stack.back(); stack.pop_back().
PopSystem ==
    /\ work_pc = "loop"
    /\ work_stack # <<>>
    /\ work_system' = Packed_back(work_stack)
    /\ work_stack' = SubSeq(work_stack, 1, Len(work_stack) - 1)
    /\ work_pc' = "simplify"
    /\ work_result' = "none"
    /\ UNCHANGED <<case_index, search_vars, ops_vars, reducer_vars, main_vars, build_vars>>

\* analyze_case: system.simplify() and the tests on its result.
SimplifySystem ==
    /\ work_pc = "simplify"
    /\ LET simplified == Packed_simplify(work_system)
       IN /\ work_system' = simplified.system
          /\ IF ~simplified.result
             THEN work_pc' = "loop" /\ work_result' = "INCONSISTENT"
             ELSE IF Packed_has_unknown_variable(simplified.system)
             THEN work_pc' = "split" /\ work_result' = "none"
             ELSE work_pc' = "loop" /\ work_result' = "SOLVED"
    /\ UNCHANGED <<work_stack, case_index, search_vars, ops_vars, reducer_vars, main_vars, build_vars>>

\* analyze_case: find_case_split(stack, system).
FindCaseSplit ==
    /\ work_pc = "split"
    /\ work_stack' = Packed_find_case_split(work_stack, work_system)
    /\ work_result' = IF Packed_case_split(work_system) = <<>>
                      THEN "LEAF" ELSE "SPLIT"
    /\ work_pc' = "loop"
    /\ UNCHANGED <<work_system, case_index, search_vars, ops_vars, reducer_vars, main_vars, build_vars>>

\* analyze: analyze_case returned; increment(case_index) and loop test.
NextCase ==
    /\ work_pc = "loop"
    /\ work_stack = <<>>
    /\ case_index' = increment(case_index)
    /\ work_pc' = IF \E k \in DOMAIN case_index : ~case_index[k]
                  THEN "case" ELSE "end"
    /\ work_result' = "none"
    /\ UNCHANGED <<work_stack, work_system, search_vars, ops_vars, reducer_vars, main_vars, build_vars>>

PackedNext ==
    \/ AnalyzeCase
    \/ PopSystem
    \/ SimplifySystem
    \/ FindCaseSplit
    \/ NextCase

SpecPacked == PackedInit /\ [][PackedNext]_vars

\* ================================================================== claims
Range(seq) == {seq[k] : k \in 1..Len(seq)}

EquationTerms(system) ==
    UNION {Range(system.ones[n]) : n \in 1..Len(system.ones)}
    \cup UNION {Range(system.unknown[n]) : n \in 1..Len(system.unknown)}

\* A monomial matches a batch: its p-index is a zeroed p, its q-index is a
\* zeroed q, or it is one of the zeroed quadratic monomials.
HitsZeroedVariable(sub, term) ==
    term[1] \in Range(sub.zeroed_ps) \/ term[2] \in Range(sub.zeroed_qs)

Matches(sub, term) ==
    HitsZeroedVariable(sub, term) \/ term \in Range(sub.zeroed_terms)

\* C7 as stated: after apply(batch) no monomial matching the batch is left in
\* any ones equation, in any unknown equation, or in zeros.
C7_AsStated ==
    last.op = "apply" =>
        \A term \in EquationTerms(last.after) \cup Range(last.after.zeros) :
            ~Matches(last.sub, term)

\* C7 amended: after apply(batch) no monomial matching the batch is left in
\* any ones or unknown equation, zeros holds no monomial with a zeroed p- or
\* q-index, and every zeroed quadratic monomial neither of whose variables is
\* zeroed is recorded in zeros.
C7_SubstitutionRemoval ==
    last.op = "apply" =>
        /\ \A term \in EquationTerms(last.after) : ~Matches(last.sub, term)
        /\ \A term \in Range(last.after.zeros) :
              ~HitsZeroedVariable(last.sub, term)
        /\ \A term \in Range(last.sub.zeroed_terms) :
              ~HitsZeroedVariable(last.sub, term)
                  => term \in Range(last.after.zeros)

C7_Witness ==
    /\ last.op = "apply"
    /\ \E term \in EquationTerms(last.before) :
          term \in Range(last.sub.zeroed_terms)
    /\ \E term \in EquationTerms(last.before) :
          HitsZeroedVariable(last.sub, term)
    /\ last.after.zeros # <<>>

\* The monomials the last transformation removes from the equations.
RemovedByLast(term) ==
    IF last.op = "apply" THEN Matches(last.sub, term)
    ELSE IF last.op = "set_p_zero" THEN term[1] = last.index
    ELSE IF last.op = "set_q_zero" THEN term[2] = last.index
    ELSE FALSE

EmptiedOnes ==
    {n \in 1..Len(last.before.ones) :
        \A k \in 1..Len(last.before.ones[n]) :
            RemovedByLast(last.before.ones[n][k])}

\* C8: a ones equation emptied by apply, set_p_zero or set_q_zero stays in the
\* result's ones as an empty equation, the next simplify of the result
\* reports it unsatisfiable, and the optional-returning variant of the
\* transformation returns no System.
C8_EmptiedOnesSignalled ==
    (last.op \in {"apply", "set_p_zero", "set_q_zero"} /\ EmptiedOnes # {}) =>
        /\ Cardinality({n \in 1..Len(last.after.ones) :
                            last.after.ones[n] = <<>>})
              = Cardinality(EmptiedOnes)
        /\ simplify_step(last.after).kind = "unsat"
        /\ ~simplify(last.after).has_value
        /\ ~last.deep.has_value

C8_Witness ==
    /\ last.op \in {"apply", "set_p_zero", "set_q_zero"}
    /\ \E n \in EmptiedOnes : Len(last.before.ones[n]) >= 1
    /\ ~has_unsatisfiable_equation(last.before)
    /\ <<>> \in Range(last.after.ones)

\* The variables zeroed by a pin to one: the co-factors, in zeros, of the
\* pinned variable.
ZeroedCofactors ==
    IF last.op = "set_p_one"
    THEN {term[2] : term \in
            {t \in Range(last.before.zeros) : t[1] = last.index}}
    ELSE IF last.op = "set_q_one"
    THEN {term[1] : term \in
            {t \in Range(last.before.zeros) : t[2] = last.index}}
    ELSE {}

\* What the last transformation makes of one monomial: removed (<<>>) or
\* rewritten (a one-element sequence).
ImageOfTerm(term) ==
    IF last.op = "set_p_one"
    THEN IF term[2] \in ZeroedCofactors THEN <<>>
         ELSE <<Term(IF term[1] = last.index THEN 0 ELSE term[1], term[2])>>
    ELSE IF last.op = "set_q_one"
    THEN IF term[1] \in ZeroedCofactors THEN <<>>
         ELSE <<Term(term[1], IF term[2] = last.index THEN 0 ELSE term[2])>>
    ELSE IF RemovedByLast(term) THEN <<>> ELSE <<term>>

RECURSIVE ImageOfEquation(_)
ImageOfEquation(poly) ==
    IF poly = <<>> THEN <<>>
    ELSE ImageOfTerm(Head(poly)) \o ImageOfEquation(Tail(poly))

ImagesOf(polys) == [n \in 1..Len(polys) |-> ImageOfEquation(polys[n])]

JustOne == <<Term(0, 0)>>

Transformations ==
    {"apply", "set_p_zero", "set_q_zero", "set_p_one", "set_q_one"}

\* C9: after apply, set_p_zero, set_q_zero, set_p_one or set_q_one the
\* result's unknown is exactly the equations of unknown that became neither
\* empty nor the single constant, its ones exactly the equations of ones that
\* did not become the single constant (single non-constant monomials are
\* kept), in their former order; so no equation {1} occurs in the result.
C9_EquationResolution ==
    last.op \in Transformations =>
        /\ last.after.unknown =
              SelectSeq(ImagesOf(last.before.unknown),
                        LAMBDA e : e # <<>> /\ e # JustOne)
        /\ last.after.ones =
              SelectSeq(ImagesOf(last.before.ones), LAMBDA e : e # JustOne)
        /\ \A n \in 1..Len(last.before.ones) :
              LET e == ImageOfEquation(last.before.ones[n])
              IN (Len(e) = 1 /\ e # JustOne) => e \in Range(last.after.ones)
        /\ JustOne \notin Range(last.after.ones)
        /\ JustOne \notin Range(last.after.unknown)
        /\ <<>> \notin Range(last.after.unknown)

C9_Witness ==
    /\ last.op = "set_p_one"
    /\ \E n \in 1..Len(last.before.unknown) :
          /\ Len(last.before.unknown[n]) >= 2
          /\ ImageOfEquation(last.before.unknown[n]) = JustOne
    /\ \E n \in 1..Len(last.before.ones) :
          LET e == ImageOfEquation(last.before.ones[n])
          IN Len(last.before.ones[n]) >= 2 /\ Len(e) = 1 /\ e # JustOne

AllTerms(system) == EquationTerms(system) \cup Range(system.zeros)

\* C10: set_p_one(k) on an active p_k yields a System in which p_k is not
\* active and occurs in no monomial, every p_k*q_m of an equation has become
\* q_m and every p_k the constant 1, and every q_m with p_k*q_m in zeros is
\* zeroed: not active and in no monomial of zeros or of an equation;
\* symmetrically for set_q_one(k).
C10_PinToOne ==
    /\ (last.op = "set_p_one"
            /\ last.index \in Range(last.before.active_ps)) =>
        /\ last.index \notin Range(last.after.active_ps)
        /\ \A term \in AllTerms(last.after) : term[1] # last.index
        /\ \A m \in ZeroedCofactors :
              /\ m \notin Range(last.after.active_qs)
              /\ \A term \in AllTerms(last.after) : term[2] # m
        /\ \A n \in 1..Len(last.before.ones) :
              ImageOfEquation(last.before.ones[n]) # JustOne =>
                  ImageOfEquation(last.before.ones[n])
                      \in Range(last.after.ones)
        /\ \A n \in 1..Len(last.before.unknown) :
              ImageOfEquation(last.before.unknown[n]) \notin {<<>>, JustOne}
                  => ImageOfEquation(last.before.unknown[n])
                         \in Range(last.after.unknown)
    /\ (last.op = "set_q_one"
            /\ last.index \in Range(last.before.active_qs)) =>
        /\ last.index \notin Range(last.after.active_qs)
        /\ \A term \in AllTerms(last.after) : term[2] # last.index
        /\ \A m \in ZeroedCofactors :
              /\ m \notin Range(last.after.active_ps)
              /\ \A term \in AllTerms(last.after) : term[1] # m
        /\ \A n \in 1..Len(last.before.ones) :
              ImageOfEquation(last.before.ones[n]) # JustOne =>
                  ImageOfEquation(last.before.ones[n])
                      \in Range(last.after.ones)
        /\ \A n \in 1..Len(last.before.unknown) :
              ImageOfEquation(last.before.unknown[n]) \notin {<<>>, JustOne}
                  => ImageOfEquation(last.before.unknown[n])
                         \in Range(last.after.unknown)

C10_Witness ==
    /\ last.op = "set_p_one"
    /\ last.index \in Range(last.before.active_ps)
    /\ \E m \in ZeroedCofactors :
          /\ m \in Range(last.before.active_qs)
          /\ \E term \in EquationTerms(last.before) : term[2] = m
    /\ \E term \in EquationTerms(last.before) :
          is_quadratic(term) /\ term[1] = last.index
              /\ term[2] \notin ZeroedCofactors
    /\ \E term \in EquationTerms(last.before) : term = Term(last.index, 0)

\* ------------------------------------------------------- claims on the search
\* The 0/1 assignments of the active variables of a System.
Assignments(system) ==
    [p : [Range(system.active_ps) -> {0, 1}],
     q : [Range(system.active_qs) -> {0, 1}]]

ValueOf(term, a) ==
    (IF term[1] = 0 THEN 1 ELSE a.p[term[1]])
        * (IF term[2] = 0 THEN 1 ELSE a.q[term[2]])

RECURSIVE SumOf(_, _)
SumOf(poly, a) ==
    IF poly = <<>> THEN 0 ELSE ValueOf(Head(poly), a) + SumOf(Tail(poly), a)

\* The assignment gives every zeros monomial the value 0, every ones equation
\* the sum 1 and every unknown equation the sum 0 or 1.
Satisfies(a, system) ==
    /\ \A term \in Range(system.zeros) : ValueOf(term, a) = 0
    /\ \A n \in 1..Len(system.ones) : SumOf(system.ones[n], a) = 1
    /\ \A n \in 1..Len(system.unknown) :
          SumOf(system.unknown[n], a) \in {0, 1}

\* The pin of the false / true child of a branch, as a test on assignments.
PinHolds(a, simplified, branch, child) ==
    IF branch.kind = "variable"
    THEN ValueOf(branch.term, a) = (IF child THEN 1 ELSE 0)
    ELSE IF branch.kind = "zeros"
    THEN IF child THEN a.q[branch.term[2]] = 0 ELSE a.p[branch.term[1]] = 0
    ELSE SumOf(simplified.unknown[branch.index], a) = (IF child THEN 1 ELSE 0)

SatisfiesChild(a, simplified, branch, child) ==
    /\ PinHolds(a, simplified, branch, child)
    /\ Satisfies(a, IF child THEN branch.true_child ELSE branch.false_child)

AtBranch ==
    Top.pc = "decide" /\ BranchOf(Top.simplified.value).kind # "leaf"

\* C1: at every branch of kind (a), (b) or (c) taken on a simplified System
\* R, every 0/1 assignment of R's active variables that satisfies R satisfies
\* the pin and the System of the false child or of the true child.
C1_BranchExhaustive ==
    AtBranch =>
        LET R == Top.simplified.value
            branch == BranchOf(R)
        IN \A a \in Assignments(R) :
              Satisfies(a, R) =>
                  \/ SatisfiesChild(a, R, branch, FALSE)
                  \/ SatisfiesChild(a, R, branch, TRUE)

\* A branch of kind (c) on a satisfiable System: an assignment satisfying R
\* satisfies one of the two children.
C1_Witness ==
    /\ AtBranch
    /\ BranchOf(Top.simplified.value).kind = "unknown"
    /\ LET R == Top.simplified.value
           branch == BranchOf(R)
       IN \E a \in Assignments(R) :
             /\ Satisfies(a, R)
             /\ \/ SatisfiesChild(a, R, branch, TRUE)
                \/ SatisfiesChild(a, R, branch, FALSE)

RECURSIVE TotalLength(_)
TotalLength(polys) ==
    IF polys = <<>> THEN 0 ELSE Len(Head(polys)) + TotalLength(Tail(polys))

\* Number of monomial occurrences in ones and unknown.
Occurrences(system) == TotalLength(system.ones) + TotalLength(system.unknown)

SizeOf(system) ==
    <<Occurrences(system), Len(system.zeros), Len(system.unknown)>>

\* A natural number that every rewrite step and every branch decreases.
Measure(system) ==
    2 * Occurrences(system) + Len(system.zeros) + Len(system.unknown)

ChildrenSmaller ==
    \A d \in 2..Len(stack) :
        /\ SizeOf(stack[d].system) # SizeOf(stack[d - 1].simplified.value)
        /\ Measure(stack[d].system) < Measure(stack[d - 1].simplified.value)
        /\ Measure(stack[d - 1].simplified.value)
              <= Measure(stack[d - 1].system)

TerminalOutcomes == {"trivial", "unsat", "solved", "empty", "leaf"}

PathsEndInOneClass ==
    /\ Top.pc = "done" =>
          \/ Top.outcome \in TerminalOutcomes
          \/ Top.outcome \in {"variable", "zeros", "unknown"}
    /\ \A d \in 1..(Len(stack) - 1) : stack[d].pc \in {"first", "second"}

\* C2: the search started on System(i, j) terminates: every System handed to
\* a recursive call is strictly smaller than the simplified System of its
\* caller (occurrences, zeros entries and unknown equations never all stay
\* the same), every call ends as Contradiction, Solved/empty, Leaf or a
\* branch whose two calls have returned, and the root call returns.
C2_SearchTerminates ==
    /\ [](ChildrenSmaller /\ PathsEndInOneClass /\ Len(stack) < MaxDepth)
    /\ <>Finished

C2_Witness ==
    /\ Finished
    /\ stack[1].outcome = "zeros"
    /\ degrees = <<3, 6>>

\* C3: every forced-one propagation and every constant-term elimination that
\* leads to a recursive call of simplify strictly decreases the number of
\* monomial occurrences in ones and unknown, so simplify makes finitely many
\* calls.
C3_SimplifierDecreases ==
    [][(Top.pc = "simplify" /\ Len(stack') = Len(stack)
            /\ stack'[Len(stack)].pc = "simplify")
        => /\ stack'[Len(stack)].rule \in {"one", "const"}
           /\ Occurrences(stack'[Len(stack)].cur) < Occurrences(Top.cur)]_vars

\* A call of simplify made after a forced-one propagation, on a System on
\* which constant-term elimination is the next rewriting.
C3_Witness ==
    /\ Top.pc = "simplify"
    /\ Top.rule = "one"
    /\ Occurrences(Top.cur) < Occurrences(Top.system)
    /\ simplify_step(Top.cur).kind = "recurse"
    /\ simplify_step(Top.cur).rule = "const"

\* C5: a System R returned by simplify is a fixed point: it is neither
\* contradictory nor solved, no rule fires on it, and simplify(R) returns R
\* with the same active_ps, active_qs, zeros, ones and unknown.
C5_SimplifyIdempotent ==
    \A d \in 1..Len(stack) :
        stack[d].simplified.has_value =>
            /\ simplify_step(stack[d].simplified.value).kind = "fixed"
            /\ simplify(stack[d].simplified.value) = stack[d].simplified

\* A System returned by simplify after more than one rewriting.
C5_Witness ==
    /\ Top.pc = "decide"
    /\ Top.simplified.has_value
    /\ Top.simplified.value # Top.system
    /\ Top.simplified.value # simplify_step(Top.system).next

\* The leaves below a System, by the recursion of analyze in source order.
RECURSIVE LeavesBelow(_)
LeavesBelow(system) ==
    IF is_empty(system) THEN {}
    ELSE LET simplified == simplify(system)
         IN IF ~simplified.has_value THEN {}
            ELSE LET branch == BranchOf(simplified.value)
                 IN IF branch.kind = "leaf" THEN {simplified.value}
                    ELSE LeavesBelow(branch.false_child)
                             \cup LeavesBelow(branch.true_child)

\* C6: when the search has finished, the set of Leaf Systems emitted is the
\* same whether the false child or the true child was explored first at the
\* branches: in both orders it is the set of leaves found by the recursion
\* of analyze.
C6_LeafSetOrderIndependent ==
    Finished =>
        Range(leaves) = LeavesBelow(System(degrees[1], degrees[2]))

C6_Witness ==
    /\ Finished
    /\ true_first
    /\ Len(leaves) >= 2
    /\ leaves[1] # leaves[2]

\* ---------------------------------------------------------------------- C4
\* The terminal classes of the simplifier.
ClassOf(kind) ==
    IF kind = "unsat" THEN "Contradiction"
    ELSE IF kind \in {"solved", "empty"} THEN "Solved"
    ELSE "FixedPoint"

AsSets(system) ==
    [active_ps |-> Range(system.active_ps),
     active_qs |-> Range(system.active_qs),
     zeros     |-> Range(system.zeros),
     ones      |-> {Range(system.ones[n]) : n \in 1..Len(system.ones)},
     unknown   |-> {Range(system.unknown[n]) : n \in 1..Len(system.unknown)}]

\* The top activation record has just left the simplifier.
LeftSimplify ==
    \/ Top.pc = "decide"
    \/ Top.pc = "done" /\ Top.outcome \in {"unsat", "solved", "empty"}

AnyOrderClass ==
    IF Top.pc = "decide" THEN "FixedPoint" ELSE ClassOf(Top.outcome)

SameFixedPoint ==
    LET fixed == simplify_return(Top.system)
    IN (AnyOrderClass = "FixedPoint" \/ ClassOf(fixed.kind) = "FixedPoint")
       => /\ AnyOrderClass = ClassOf(fixed.kind)
          /\ AsSets(Top.simplified.value) = AsSets(fixed.next)

\* C4 as stated: whatever order the rules were applied in, the outcome is
\* the one of simplify: the same terminal class and, for a fixed point, the
\* same active variables, zeros, ones and unknown as sets.
C4_AsStated ==
    LeftSimplify =>
        /\ AnyOrderClass = ClassOf(simplify_return(Top.system).kind)
        /\ SameFixedPoint

\* C4 (amended): whatever order the rules were applied in, the run ends in
\* a fixed point exactly when simplify does, and then with the same active
\* variables, zeros, ones and unknown as sets; otherwise both end without a
\* System (Contradiction or Solved, not necessarily the same of the two).
C4_Confluence == LeftSimplify => SameFixedPoint

\* A fixed point reached through a System on which two rewritings were open
\* and the one chosen is not the one simplify takes.
C4_Witness ==
    /\ Top.pc = "simplify"
    /\ Cardinality(AnyOrderSteps(Top.cur)) > 1
    /\ simplify_return(Top.system).kind = "fixed"
    /\ \E step \in AnyOrderSteps(Top.cur) :
          /\ step # simplify_step(Top.cur)
          /\ step.kind = "recurse"
          /\ simplify_return(step.next).kind = "fixed"

\* ------------------------------------------------------------ claim C12
\* The monomial the product term p_a * q_b contributes: the leading
\* coefficients p_i and q_j are 1.
Monomial(i, j, a, b) == Term(IF a < i THEN a ELSE 0, IF b < j THEN b ELSE 0)

PairsOfDegree(i, j, d) ==
    {pair \in (0..i) \X (0..j) : pair[1] + pair[2] = d}

CountIn(poly, term) == Cardinality({k \in 1..Len(poly) : poly[k] = term})

\* The System analyze is first called on, as constructed by System(i, j).
Root == stack[1].system

\* C12: System(i, j) has exactly i+j-1 unknown equations; the equation for
\* degree d holds exactly one monomial for each pair (a, b) with 0 <= a <= i,
\* 0 <= b <= j and a+b = d, namely (a if a < i else 0, b if b < j else 0);
\* active_ps is 1..i-1, active_qs is 1..j-1, zeros and ones are empty.
C12_InitialConstruction ==
    LET i == degrees[1]
        j == degrees[2]
    IN /\ Len(Root.unknown) = i + j - 1
       /\ \A d \in 1..(i + j - 1) :
             /\ Len(Root.unknown[d]) = Cardinality(PairsOfDegree(i, j, d))
             /\ \A term \in (0..i) \X (0..j) :
                   CountIn(Root.unknown[d], term) =
                       Cardinality({pair \in PairsOfDegree(i, j, d) :
                           Monomial(i, j, pair[1], pair[2]) = term})
       /\ Root.active_ps = [k \in 1..(i - 1) |-> k]
       /\ Root.active_qs = [k \in 1..(j - 1) |-> k]
       /\ Root.zeros = <<>>
       /\ Root.ones = <<>>

\* The search has started from a System whose equations hold the constant
\* that stands for a product with a leading coefficient.
C12_Witness ==
    /\ degrees[1] >= 2
    /\ degrees[2] > degrees[1]
    /\ Top.pc = "simplify"
    /\ \E d \in 1..Len(Root.unknown) : contains(Root.unknown[d], Term(0, 0))
    /\ \E d \in 1..Len(Root.unknown) : Len(Root.unknown[d]) = degrees[1] + 1

\* ------------------------------------------------------------ claim C13
HasEmptyOnes(system) == \E n \in 1..Len(system.ones) : system.ones[n] = <<>>

HasTwoConstants(system) ==
    \/ \E n \in 1..Len(system.ones) : CountIn(system.ones[n], Term(0, 0)) >= 2
    \/ \E n \in 1..Len(system.unknown) :
          CountIn(system.unknown[n], Term(0, 0)) >= 2

Contradictory(system) == HasEmptyOnes(system) \/ HasTwoConstants(system)

\* C13: a call of analyze on a System with an empty ones equation, or with a
\* ones or unknown equation holding two or more constants, gets
\* "unsatisfiable" from the first test of the first call of simplify (no
\* rewriting happened), never reaches its branch selection, has no callee
\* and appends nothing to the leaves.
C13_ContradictionBeforeBranching ==
    \A d \in 1..Len(stack) :
        Contradictory(stack[d].system) =>
            /\ d = Len(stack)
            /\ stack[d].pc \in {"enter", "simplify", "done"}
            /\ stack[d].cur = stack[d].system
            /\ stack[d].simplified = nullopt
            /\ stack[d].outcome \in {"none", "unsat"}
            /\ stack[d].pc = "done" => stack[d].outcome = "unsat"
            /\ stack[d].system \notin Range(leaves)

\* analyze has returned on a root System that holds an equation with two
\* constants; a recursive call of analyze has returned on a System it was
\* passed with an empty ones equation, after leaves were printed.
C13_RootWitness ==
    /\ Len(stack) = 1
    /\ Top.pc = "done"
    /\ Top.outcome = "unsat"
    /\ HasTwoConstants(Top.system)

C13_Witness ==
    /\ Len(stack) > 1
    /\ Top.pc = "done"
    /\ Top.outcome = "unsat"
    /\ HasEmptyOnes(Top.system)
    /\ leaves # <<>>

\* ------------------------------------------------------------ claim C14
\* The unknown equations of R that are a single linear monomial.
SingleLinear(R) ==
    {n \in 1..Len(R.unknown) :
        /\ Len(R.unknown[n]) = 1
        /\ (R.unknown[n][1][1] = 0) # (R.unknown[n][1][2] = 0)}

FirstOf(set) == CHOOSE n \in set : \A m \in set : n <= m

\* The alternative the priority order prescribes for a fixed point R.
Alternative(R) ==
    IF SingleLinear(R) # {} THEN "variable"
    ELSE IF R.zeros # <<>> THEN "zeros"
    ELSE IF R.unknown # <<>> THEN "unknown"
    ELSE "leaf"

\* The Systems of the false and of the true case of a prescribed alternative.
CasesOf(R) ==
    IF Alternative(R) = "variable"
    THEN LET term == R.unknown[FirstOf(SingleLinear(R))][1]
         IN IF term[1] # 0
            THEN {<<set_p_zero(R, term[1]), set_p_one(R, term[1])>>}
            ELSE {<<set_q_zero(R, term[2]), set_q_one(R, term[2])>>}
    ELSE IF Alternative(R) = "zeros"
    THEN {<<set_p_zero(R, R.zeros[1][1]), set_q_zero(R, R.zeros[1][2])>>}
    ELSE {<<move_unknown_to_zero(R, n), move_unknown_to_one(R, n)>> :
             n \in 1..Len(R.unknown)}

\* C14: the step analyze takes on a System R returned by simplify is (a) a
\* case split on the variable of the first single linear unknown equation if
\* there is one, otherwise (b) on the first zeros monomial if zeros is not
\* empty, otherwise (c) on an unknown equation if unknown is not empty, and
\* only otherwise the emission of R as a leaf; the second recursive call is
\* the other case of the same alternative; a call that has taken its
\* alternative takes no other.
C14_BranchPriority ==
    [][/\ Top.pc = "decide" =>
            LET R == Top.simplified.value
            IN IF Alternative(R) = "leaf"
               THEN /\ leaves' = Append(leaves, R)
                    /\ Len(stack') = Len(stack)
                    /\ stack'[Len(stack)].pc = "done"
                    /\ stack'[Len(stack)].outcome = "leaf"
               ELSE /\ leaves' = leaves
                    /\ Len(stack') = Len(stack) + 1
                    /\ stack'[Len(stack)].pc = "first"
                    /\ stack'[Len(stack)].outcome = Alternative(R)
                    /\ stack'[Len(stack)].simplified = Some(R)
                    /\ \E cases \in CasesOf(R) :
                          stack'[Len(stack')].system = cases[1]
       /\ (Len(stack) > 1 /\ Top.pc = "done"
              /\ stack[Len(stack) - 1].pc = "first") =>
            LET R == stack[Len(stack) - 1].simplified.value
            IN /\ Len(stack') = Len(stack)
               /\ stack'[Len(stack) - 1].pc = "second"
               /\ \E cases \in CasesOf(R) :
                     /\ stack[Len(stack)].system = cases[1]
                     /\ stack'[Len(stack)].system = cases[2]
       /\ \A d \in 1..Len(stack) :
             stack[d].pc \in {"first", "second"} =>
                 /\ Len(stack') >= d
                 /\ stack'[d].pc \in {"first", "second", "done"}
                 /\ stack'[d].outcome = stack[d].outcome
                 /\ stack'[d].simplified = stack[d].simplified
       /\ leaves' # leaves => Top.pc = "decide"
      ]_vars

\* analyze is about to pick its alternative on a fixed point with zeros and
\* unknown equations but no single linear one, after leaves were printed.
C14_Witness ==
    /\ Top.pc = "decide"
    /\ Alternative(Top.simplified.value) = "zeros"
    /\ Top.simplified.value.unknown # <<>>
    /\ leaves # <<>>

C14_WitnessVariable ==
    /\ Top.pc = "decide"
    /\ Alternative(Top.simplified.value) = "variable"
    /\ FirstOf(SingleLinear(Top.simplified.value)) > 1

C14_WitnessUnknown ==
    Top.pc = "decide" /\ Alternative(Top.simplified.value) = "unknown"

\* ------------------------------------------------------------ claim C15
\* The assignment satisfies both children of the branch, pins applied.
SatisfiesBoth(a, R) ==
    /\ SatisfiesChild(a, R, BranchOf(R), FALSE)
    /\ SatisfiesChild(a, R, BranchOf(R), TRUE)

\* Both factors of the zeros monomial of a branch of kind (b) are 0.
BothFactorsZero(a, R) ==
    /\ BranchOf(R).kind = "zeros"
    /\ a.p[BranchOf(R).term[1]] = 0
    /\ a.q[BranchOf(R).term[2]] = 0

\* C15 as stated: at every branch of kind (a), (b) or (c) no 0/1 assignment
\* of the parent's active variables that satisfies the parent System
\* satisfies both child Systems, even with each child's pin applied.
C15_AsStated ==
    AtBranch =>
        LET R == Top.simplified.value
        IN \A a \in Assignments(R) :
              Satisfies(a, R) => ~SatisfiesBoth(a, R)

\* C15 (amended): at every branch, the 0/1 assignments satisfying the
\* parent System that satisfy both child Systems with their pins are those
\* of a branch of kind (b) that give both factors of the zeros monomial the
\* value 0; at branches of kind (a) and (c) there is none.
C15_BranchOverlap ==
    AtBranch =>
        LET R == Top.simplified.value
        IN \A a \in Assignments(R) :
              Satisfies(a, R) =>
                  (SatisfiesBoth(a, R) <=> BothFactorsZero(a, R))

\* A branch of kind (b) on a System with a solution in which both factors
\* of the zeros monomial are 0, and one in which only one is.
C15_Witness ==
    /\ AtBranch
    /\ LET R == Top.simplified.value
       IN /\ \E a \in Assignments(R) :
                Satisfies(a, R) /\ BothFactorsZero(a, R)
          /\ \E a \in Assignments(R) :
                /\ Satisfies(a, R)
                /\ BranchOf(R).kind = "zeros"
                /\ ~BothFactorsZero(a, R)

\* ------------------------------------------------------------ claim C16
\* Every call below the top is waiting for its false child (case digit 1)
\* or for its true child (case digit 2); a call that has returned from both
\* is the top of the stack.
CallChain ==
    /\ Len(case_id) = Len(stack) - 1
    /\ \A d \in 1..(Len(stack) - 1) :
          /\ stack[d].pc \in {"first", "second"}
          /\ case_id[d] = (stack[d].pc = "second")

\* The first of the unknown equations of R with the fewest monomials.
ShortestFirst(R) ==
    FirstOf({n \in 1..Len(R.unknown) :
                \A m \in 1..Len(R.unknown) :
                    Len(R.unknown[n]) <= Len(R.unknown[m])})

\* The Systems of the false and of the true case of the branch on R.
CaseSystems(R) ==
    IF Alternative(R) = "unknown"
    THEN <<move_unknown_to_zero(R, ShortestFirst(R)),
           move_unknown_to_one(R, ShortestFirst(R))>>
    ELSE CHOOSE cases \in CasesOf(R) : TRUE

\* The System of the call on top of the stack is a function of the System
\* its caller was called on and of its case digit.
TopIsCase ==
    Len(stack) >= 2 =>
        LET caller == stack[Len(stack) - 1]
        IN /\ caller.simplified = simplify(caller.system)
           /\ Top.system = CaseSystems(caller.simplified.value)[
                               IF case_id[Len(case_id)] THEN 2 ELSE 1]

\* C16: at every branch the first recursive call is the one of the false
\* child (case digit 1); the true child (case digit 2) is visited only in
\* the step in which the call of the false child, with its whole subtree
\* returned, returns; leaves are appended in the order of the visits; and
\* the System of every call is a function of its caller's System and of its
\* case digit, so the visit order is a function of (i, j).
C16_DepthFirstOrder ==
    [][/\ CallChain /\ CallChain'
       /\ TopIsCase
       /\ \A d \in 1..(Len(stack) - 1) :
             Len(stack') > d => stack'[d].system = stack[d].system
       /\ Len(stack') > Len(stack) =>
             /\ Top.pc = "decide"
             /\ Len(stack') = Len(stack) + 1
             /\ stack'[Len(stack)].pc = "first"
             /\ case_id' = Append(case_id, FALSE)
       /\ (Len(stack') >= 2 /\ stack'[Len(stack') - 1].pc = "second"
              /\ stack'[Len(stack')].pc = "enter") =>
             /\ Len(stack') = Len(stack)
             /\ Top.pc = "done"
             /\ stack[Len(stack) - 1].pc = "first"
             /\ case_id[Len(case_id)] = FALSE
             /\ case_id' = Append(SubSeq(case_id, 1, Len(case_id) - 1),
                                  TRUE)
       /\ leaves' # leaves =>
             /\ Len(leaves') = Len(leaves) + 1
             /\ SubSeq(leaves', 1, Len(leaves)) = leaves
      ]_vars

\* The true child of a branch is entered, two or more calls deep, after
\* leaves were printed.
C16_Witness ==
    /\ Len(stack) >= 3
    /\ Top.pc = "enter"
    /\ stack[Len(stack) - 1].pc = "second"
    /\ case_id[Len(case_id)] = TRUE
    /\ leaves # <<>>

\* ------------------------------------------------------------ claim C17
Prefix(id, n) == SubSeq(id, 1, n)

\* Identifier a comes before identifier b in the order of the proof text:
\* a is a proper prefix of b, or a has digit 1 where they first differ.
Before(a, b) ==
    \/ Len(a) < Len(b) /\ Prefix(b, Len(a)) = a
    \/ \E k \in 1..Len(a) :
          /\ k <= Len(b)
          /\ Prefix(a, k - 1) = Prefix(b, k - 1)
          /\ a[k] = FALSE
          /\ b[k] = TRUE

\* Entry k of the identifier names the child taken at the k-th ancestor.
EntriesNameChildren ==
    \A k \in 1..(Len(stack) - 1) :
        /\ stack[k].simplified.has_value
        /\ stack[k + 1].system =
               CaseSystems(stack[k].simplified.value)[
                   IF case_id[k] THEN 2 ELSE 1]

\* C17: the case identifier has one entry per ancestor branch, entry k
\* naming the child (false / true) taken at the k-th ancestor; as long as a
\* call is on the stack, up to its return, the entries of its identifier are
\* the ones it was entered with; and every call is entered with an
\* identifier that comes after the identifier of the call entered before
\* it, so no two visited Systems have the same identifier.
C17_CaseIdentifiers ==
    [][/\ Len(case_id) = Len(stack) - 1
       /\ EntriesNameChildren
       /\ \A d \in 1..Len(stack) :
             (d <= Len(stack') /\ (d < Len(stack) \/ Top.pc # "done")) =>
                 /\ Len(case_id') >= d - 1
                 /\ Prefix(case_id', d - 1) = Prefix(case_id, d - 1)
       /\ (Len(stack) > 1 /\ Len(stack') < Len(stack)) =>
             case_id' = Prefix(case_id, Len(stack') - 1)
       /\ (Top.pc = "enter" /\ Len(stack) > 1) => Before(last_case, case_id)
       /\ Top.pc # "enter" => last_case' = last_case
      ]_vars

\* A call is entered with an identifier of both digits right after calls
\* deeper in the false subtree of its caller have returned.
C17_Witness ==
    /\ Top.pc = "enter"
    /\ Len(case_id) >= 3
    /\ Len(last_case) > Len(case_id) + 1
    /\ \E k \in 1..Len(case_id) : case_id[k] = FALSE
    /\ case_id[Len(case_id)] = TRUE

\* ------------------------------------------------------------ claim C18
\* ensure_variable_validity passes: every nonzero index of a monomial of
\* zeros, ones or unknown is the index of an active variable.
ValidVariables(system) ==
    \A term \in AllTerms(system) :
        /\ term[1] # 0 => term[1] \in Range(system.active_ps)
        /\ term[2] # 0 => term[2] \in Range(system.active_qs)

\* The conditions under which the checks of the paranoid mode end the
\* process, at the points of the search where they are evaluated.
InactiveVariableExit == Top.pc = "simplify" /\ ~ValidVariables(Top.cur)

MultipleConstantsExit ==
    /\ Top.pc = "simplify"
    /\ simplify_step(Top.cur).kind \in {"fixed", "empty"}
          \/ simplify_step(Top.cur).rule = "const"
    /\ HasTwoConstants(Top.cur)

MoveOutOfBoundsExit ==
    /\ AtBranch
    /\ BranchOf(Top.simplified.value).kind = "unknown"
    /\ BranchOf(Top.simplified.value).index
           \notin 1..Len(Top.simplified.value.unknown)

MovedConstantExit ==
    /\ AtBranch
    /\ BranchOf(Top.simplified.value).kind = "unknown"
    /\ \E n \in 1..Len(Top.simplified.value.unknown) :
          /\ n = BranchOf(Top.simplified.value).index
          /\ contains(Top.simplified.value.unknown[n], Term(0, 0))

\* C18: every System passed to simplify during the search, by analyze or by
\* simplify itself, names only active variables in its monomials, and none
\* of the four checks of the paranoid mode ends the process.
C18_VariableValidity ==
    /\ Top.pc = "simplify" => ValidVariables(Top.cur)
    /\ ~InactiveVariableExit
    /\ ~MultipleConstantsExit
    /\ ~MoveOutOfBoundsExit
    /\ ~MovedConstantExit

\* simplify calls itself, several calls of analyze deep, on a rewritten
\* System with zeros, ones and unknown equations from which variables of
\* both families have been eliminated.
C18_Witness ==
    /\ Len(stack) > 3
    /\ Top.pc = "simplify"
    /\ Top.cur # Top.system
    /\ Top.cur.zeros # <<>>
    /\ Top.cur.ones # <<>>
    /\ Top.cur.unknown # <<>>
    /\ Len(Top.cur.active_ps) < degrees[1] - 1
    /\ Len(Top.cur.active_qs) < degrees[2] - 1

\* ------------------------------------------------------------ claim C19
\* The Systems held by the calls on the stack: the System each call was
\* passed (constructed by System(i, j) or returned by a transformation), the
\* System its running call of simplify was passed, and the System simplify
\* returned to it.
PassedSystems ==
    {stack[d].system : d \in 1..Len(stack)}
    \cup {stack[d].cur : d \in 1..Len(stack)}

ReturnedBySimplify ==
    {stack[d].simplified.value :
        d \in {n \in 1..Len(stack) : stack[n].simplified.has_value}}

\* C19 as stated: no System that exists during a run, whether constructed,
\* returned by a transformation or returned by simplify, has a ones or
\* unknown equation with two or more constants or an empty ones equation.
C19_AsStated ==
    \A system \in PassedSystems \cup ReturnedBySimplify :
        ~Contradictory(system)

\* C19 (amended): no System constructed by System(i, j) with i # j and no
\* System returned by simplify has a ones or unknown equation with two or
\* more constants or an empty ones equation.
C19_SimplifiedInvariant ==
    /\ degrees[1] # degrees[2] => ~Contradictory(Root)
    /\ \A system \in ReturnedBySimplify : ~Contradictory(system)

\* simplify has returned, to a recursive call of analyze, a System with
\* ones equations that it rewrote.
C19_Witness ==
    /\ Len(stack) > 1
    /\ Top.pc = "decide"
    /\ Top.simplified.value # Top.system
    /\ Top.simplified.value.ones # <<>>
    /\ Top.simplified.value \in ReturnedBySimplify

\* ------------------------------------------------------------ claim C20
\* The monomials that occur twice or more in one equation of the System.
RepeatedIn(poly) ==
    {poly[k] : k \in {n \in 1..Len(poly) :
                         \E m \in 1..Len(poly) : m # n /\ poly[m] = poly[n]}}

Repeated(system) ==
    UNION {RepeatedIn(system.ones[n]) : n \in 1..Len(system.ones)}
    \cup UNION {RepeatedIn(system.unknown[n]) : n \in 1..Len(system.unknown)}

\* C20 as stated: in every System constructed by System(i, j) or reached
\* from it through transformations, simplification and branching, no
\* equation contains two equal monomials.
C20_AsStated ==
    \A system \in PassedSystems \cup ReturnedBySimplify :
        Repeated(system) = {}

\* C20 (amended): in every such System the only monomial an equation can
\* contain twice is the constant 1.
C20_NoDuplicates ==
    \A system \in PassedSystems \cup ReturnedBySimplify :
        Repeated(system) \subseteq {Term(0, 0)}

\* simplify is called, several calls of analyze deep, on a System it has
\* rewritten into one with an equation that holds the constant twice.
C20_Witness ==
    /\ Len(stack) > 1
    /\ Top.pc = "simplify"
    /\ Top.cur # Top.system
    /\ Repeated(Top.cur) = {Term(0, 0)}

C20_RootWitness ==
    /\ Len(stack) = 1
    /\ Top.pc = "done"
    /\ Repeated(Top.system) = {Term(0, 0)}

\* ------------------------------------------------------------ claim C11
\* The System obtained from system by the calls find_case_split makes on
\* one child.
RECURSIVE DerivedFrom(_, _)
DerivedFrom(system, calls) ==
    IF calls = <<>> THEN system
    ELSE DerivedFrom(Packed_call(system, Head(calls)), Tail(calls))

\* C11 (in-place variant): every child find_case_split pushes is the
\* parent System, as simplify left it, with the calls of that child alone
\* applied, so all children are derived from the same parent; the pushes
\* leave the parent unchanged; no step changes a System that waits on the
\* stack, so simplifying or splitting one child never changes what its
\* sibling will see; and the System a loop iteration works on is the one
\* that was on top of the stack.  (In the persistent variant the
\* transformations are functions of their arguments: each returns a new
\* System and has no access to change the one it is applied to.)
C11_NoSharing ==
    [][/\ work_pc = "split" =>
             LET children == Packed_case_split(work_system)
             IN /\ Len(work_stack') = Len(work_stack) + Len(children)
                /\ \A c \in 1..Len(children) :
                      work_stack'[Len(work_stack) + c] =
                          DerivedFrom(work_system, children[c])
                /\ work_system' = work_system
       /\ \A k \in 1..Len(work_stack) :
             k <= Len(work_stack') => work_stack'[k] = work_stack[k]
       /\ (work_pc = "loop" /\ work_stack # <<>>) =>
             /\ work_system' = work_stack[Len(work_stack)]
             /\ Len(work_stack') = Len(work_stack) - 1
       /\ work_pc = "simplify" => work_stack' = work_stack
      ]_vars

\* find_case_split has pushed children, which differ from each other and
\* from their parent, on top of Systems that were already waiting.
C11_Witness ==
    /\ work_result = "SPLIT"
    /\ Len(work_stack) >= 4
    /\ work_stack[Len(work_stack)] # work_stack[Len(work_stack) - 1]
    /\ \A k \in 1..Len(work_stack) : work_stack[k] # work_system

\* A child is being simplified, and is changed by it, while its sibling
\* waits on the stack.
C11_WitnessSibling ==
    /\ work_pc = "loop"
    /\ work_result = "SOLVED"
    /\ Len(work_stack) >= 2
    /\ work_system.lhs # work_stack[Len(work_stack)].lhs


\* ------------------------------------------------------------ claim C21
\* The root call of analyze, the only call on the stack.
OnlyRoot == Len(stack) = 1 /\ leaves = <<>>

\* C21 as stated: System(1, 1) has no unknown equation and the search
\* classifies it Solved, with no branch and no leaf.
C21_AsStated ==
    degrees = <<1, 1>> =>
        /\ Root.unknown = <<>>
        /\ OnlyRoot
        /\ stack[1].pc = "done" => stack[1].outcome = "solved"

\* C21: System(1, 1) has the single unknown equation 1 + 1 (both leading
\* monomials of degree 1 are mapped to the constant), and the first call of
\* simplify classifies it unsatisfiable: no rewriting, no branch, no
\* recursive call and no leaf.
C21_ScenarioOneOne ==
    degrees = <<1, 1>> =>
        /\ Root.active_ps = <<>>
        /\ Root.active_qs = <<>>
        /\ Root.zeros = <<>>
        /\ Root.ones = <<>>
        /\ Root.unknown = << <<Term(0, 0), Term(0, 0)>> >>
        /\ OnlyRoot
        /\ stack[1].pc \in {"enter", "simplify", "done"}
        /\ stack[1].rule = "none"
        /\ stack[1].cur = Root
        /\ stack[1].pc = "done" => stack[1].outcome = "unsat"

\* The search of (1, 1) has returned.
C21_Witness ==
    /\ degrees = <<1, 1>>
    /\ Finished
    /\ stack[1].outcome = "unsat"


\* ------------------------------------------------------------ claim C22
EqualDegrees == degrees[1] = degrees[2]

\* The unknown equations of System(2, 2), by degree.
GroupsOfTwoTwo ==
    << <<Term(0, 1), Term(1, 0)>>,
       <<Term(0, 0), Term(1, 1), Term(0, 0)>>,
       <<Term(1, 0), Term(0, 1)>> >>

\* C22: for i = j the search never prints a leaf and terminates (the root
\* call returns); the unknown equations of System(2, 2) are q1 + p1,
\* 1 + p1 q1 + 1 and p1 + q1.
C22_EqualDegreesResolve ==
    /\ [](EqualDegrees =>
             /\ leaves = <<>>
             /\ degrees = <<2, 2>> => Root.unknown = GroupsOfTwoTwo)
    /\ EqualDegrees ~> (Finished /\ leaves = <<>>)

\* The search of (2, 2) has returned.
C22_Witness ==
    /\ degrees = <<2, 2>>
    /\ Finished
    /\ leaves = <<>>


\* ------------------------------------------------------------ claim C23
\* A call on the stack has taken a branch of the given kind.
BranchTaken(kind) == \E d \in 1..Len(stack) : stack[d].outcome = kind

\* C23 as stated: the search of (2, 3) takes a branch of each kind.
C23_AsStated ==
    /\ <>(degrees = <<2, 3>> => BranchTaken("variable"))
    /\ <>(degrees = <<2, 3>> => BranchTaken("zeros"))
    /\ <>(degrees = <<2, 3>> => BranchTaken("unknown"))

\* Calls that took branches of all three kinds are on the stack.
AllKindsTaken ==
    /\ BranchTaken("variable")
    /\ BranchTaken("zeros")
    /\ BranchTaken("unknown")

\* C23: the search of (2, 3) takes no branch: simplify rewrites the root by
\* constant-term elimination and classifies it Solved, so the root call is
\* the only call, it returns, and no leaf is printed; the search of (3, 6)
\* takes a branch of each of the kinds (a) variable, (b) zeros and
\* (c) unknown.
C23_ScenarioTwoThree ==
    /\ [](degrees = <<2, 3>> =>
             /\ OnlyRoot
             /\ stack[1].pc \in {"enter", "simplify", "done"}
             /\ stack[1].outcome \in {"none", "solved"})
    /\ <>(/\ degrees = <<2, 3>> => Finished /\ stack[1].outcome = "solved"
          /\ degrees = <<3, 6>> => AllKindsTaken)

\* The root of (2, 3) is classified Solved after a rewriting.
C23_Witness ==
    /\ degrees = <<2, 3>>
    /\ Finished
    /\ stack[1].outcome = "solved"
    /\ stack[1].cur # Root

\* In the search of (3, 6) calls that took branches of all three kinds are
\* on the stack at once.
C23_WitnessAllKinds ==
    /\ degrees = <<3, 6>>
    /\ AllKindsTaken


\* ------------------------------------------------------------ claim C24
\* What the call of analyze on a System ends with or branches on.
SearchReport(system) ==
    IF is_empty(system) THEN "trivial"
    ELSE LET step == simplify_return(system)
         IN IF step.kind = "fixed" THEN BranchOf(step.next).kind
            ELSE step.kind

\* The last transformation pinned the active variable p1 to one and the
\* System it returned has no unknown equation.
PinnedOneEmptiesUnknown ==
    /\ last.op = "set_p_one"
    /\ last.index = 1
    /\ contains(last.before.active_ps, 1)
    /\ last.after.unknown = <<>>

C24_WitnessContradiction ==
    /\ PinnedOneEmptiesUnknown
    /\ SearchReport(last.after) = "unsat"

\* ------------------------------------------------------------ claim C25
PrintModes == {"PLAIN_TEXT", "WOLFRAM", "LATEX"}

\* ensure_active that does not exempt the index ZERO.
ensure_active_without_zero(active_indices, index) ==
    contains(active_indices, index)

\* ensure_active: TRUE when the check passes.
ensure_active(active_indices, index) ==
    index = 0 \/ contains(active_indices, index)

\* ensure_variable_validity: TRUE when every check passes.
ensure_variable_validity(system) ==
    /\ \A n \in 1..Len(system.zeros) :
          /\ ensure_active(system.active_ps, system.zeros[n][1])
          /\ ensure_active(system.active_qs, system.zeros[n][2])
    /\ \A n \in 1..Len(system.ones) : \A k \in 1..Len(system.ones[n]) :
          /\ ensure_active(system.active_ps, system.ones[n][k][1])
          /\ ensure_active(system.active_qs, system.ones[n][k][2])
    /\ \A n \in 1..Len(system.unknown) : \A k \in 1..Len(system.unknown[n]) :
          /\ ensure_active(system.active_ps, system.unknown[n][k][1])
          /\ ensure_active(system.active_qs, system.unknown[n][k][2])

\* std::sort followed by std::unique and erase.
RECURSIVE sort_unique_from(_)
sort_unique_from(items) ==
    IF items = {} THEN <<>>
    ELSE LET least == CHOOSE n \in items : \A m \in items : n <= m
         IN <<least>> \o sort_unique_from(items \ {least})

sort_unique(collection) == sort_unique_from(Range(collection))

\* std::exit(EXIT_FAILURE) from ensure or prevent.
ExitFailure == [kind |-> "exit", rule |-> "none", next |-> EmptySystem,
                narration |-> <<>>]

Narrated(step, verbose, narration) ==
    [kind |-> step.kind, rule |-> step.rule, next |-> step.next,
     narration |-> IF verbose THEN narration ELSE <<>>]

\* One call of simplify<verbose, paranoid>: its result as in simplify_step,
\* kind "exit" where a check of the paranoid mode ends the process, and the
\* conclusions it prints in the verbose mode.
simplify_in_mode(verbose, paranoid, system) ==
    IF paranoid /\ ~ensure_variable_validity(system) THEN ExitFailure
    ELSE IF has_unsatisfiable_equation(system)
    THEN Narrated(StepResult("unsat", "none", system), verbose,
                  <<"inconsistent">>)
    ELSE IF is_solved(system)
    THEN Narrated(StepResult("solved", "none", system), verbose,
                  <<"constrained">>)
    ELSE IF ForcedOneCandidates(system) # {}
    THEN LET n == CHOOSE n \in ForcedOneCandidates(system) :
                     \A m \in ForcedOneCandidates(system) : n <= m
         IN Narrated(Continue("one", ForcedOne(system, n)), verbose,
                     <<system.ones[n][1]>>)
    ELSE IF paranoid /\ HasTwoConstants(system) THEN ExitFailure
    ELSE LET sub == ConstantSubstitution(system)
         IN IF Sub_is_empty(sub)
            THEN Narrated(StepResult("fixed", "none", system), verbose, <<>>)
            ELSE LET result == apply(system, sub)
                     sorted_ps == sort_unique(sub.zeroed_ps)
                     sorted_qs == sort_unique(sub.zeroed_qs)
                 IN Narrated(Continue("const", result), verbose,
                        <<sorted_ps, sorted_qs,
                          IF is_empty(result) THEN <<>>
                          ELSE sub.zeroed_terms>>)

\* analyze<mode, paranoid> on a simplified System: the branch as in BranchOf,
\* kind "exit" where move_unknown_to_zero<paranoid> or
\* move_unknown_to_one<paranoid> ends the process, and what is printed.
branch_in_mode(mode, paranoid, simplified) ==
    LET branch == BranchOf(simplified)
        size == Len(simplified.unknown)
    IN IF /\ paranoid
          /\ branch.kind = "unknown"
          /\ \/ branch.index \notin 1..size
             \/ \E k \in 1..Len(simplified.unknown[branch.index]) :
                   is_constant(simplified.unknown[branch.index][k])
       THEN [kind |-> "exit", false_child |-> EmptySystem,
             true_child |-> EmptySystem, printed |-> <<>>]
       ELSE [kind |-> branch.kind, false_child |-> branch.false_child,
             true_child |-> branch.true_child,
             printed |-> IF branch.kind # "leaf"
                         THEN IF mode = "LATEX" THEN <<branch.term>> ELSE <<>>
                         ELSE IF mode = "LATEX" THEN <<"remains">>
                         ELSE simplified.ones]

Observed(step) == [kind |-> step.kind, rule |-> step.rule, next |-> step.next]

Taken(branch) ==
    [kind |-> branch.kind, false_child |-> branch.false_child,
     true_child |-> branch.true_child]

\* C25: at every System visited by the search, simplify takes the same step
\* (same rule, same resulting System, same classification) whether it
\* narrates or not and whether the paranoid checks are compiled in or not,
\* and analyze takes the same branch with the same two child Systems, or
\* reaches the same Leaf, in each of the three print modes with the paranoid
\* flag on and off; no paranoid check ends the run.
C25_NarrationObserver ==
    /\ Top.pc = "simplify" =>
          \A verbose \in BOOLEAN, paranoid \in BOOLEAN :
             Observed(simplify_in_mode(verbose, paranoid, Top.cur))
                = simplify_step(Top.cur)
    /\ Top.pc = "decide" =>
          \A mode \in PrintModes, paranoid \in BOOLEAN :
             Taken(branch_in_mode(mode, paranoid, Top.simplified.value))
                = Taken(BranchOf(Top.simplified.value))

\* The narrating simplify rewrites a System by a constant-term elimination
\* whose batch names a variable twice, so that the sort_unique of the
\* narration changes the batch after the System was rewritten with it.
C25_Witness ==
    /\ Top.pc = "simplify"
    /\ simplify_step(Top.cur).rule = "const"
    /\ LET sub == ConstantSubstitution(Top.cur)
       IN sort_unique(sub.zeroed_ps) # sub.zeroed_ps
    /\ simplify_in_mode(TRUE, TRUE, Top.cur).narration # <<>>
    /\ simplify_in_mode(FALSE, TRUE, Top.cur).narration = <<>>

\* analyze splits on an unknown equation, where the paranoid mode checks the
\* index and the moved equation.
C25_WitnessMove ==
    /\ Top.pc = "decide"
    /\ branch_in_mode("LATEX", TRUE, Top.simplified.value).kind = "unknown"

\* ------------------------------------------- DeepEquationReducer: search
Deep_some(system) == [has_value |-> TRUE, value |-> system]

Deep_empty(system) ==
    system.zeros = <<>> /\ system.ones = <<>> /\ system.unknown = <<>>

\* System(p_degree, q_degree): no zeros, no ones, initial_equations unknown.
Deep_initial(p_degree, q_degree) ==
    [zeros |-> <<>>, ones |-> <<>>,
     unknown |-> [d \in 1..(p_degree + q_degree - 1) |->
                     InitialEquation(p_degree, q_degree, d)]]

Deep_set_p_one(system, p_index) ==
    LET converted(poly) ==
            [k \in 1..Len(poly) |->
                IF poly[k][1] = p_index THEN Term(0, poly[k][2]) ELSE poly[k]]
        hits == SelectSeq(system.zeros, LAMBDA term : term[1] = p_index)
        transformation ==
            [zeroed_ps |-> <<>>,
             zeroed_qs |-> [k \in 1..Len(hits) |-> hits[k][2]],
             zeroed_terms |-> <<>>]
        result ==
            [zeros |-> SelectSeq(system.zeros,
                                 LAMBDA term : term[1] # p_index),
             ones |-> [n \in 1..Len(system.ones) |->
                          converted(system.ones[n])],
             unknown |-> [n \in 1..Len(system.unknown) |->
                             converted(system.unknown[n])]]
    IN Deep_apply(result, transformation)

Deep_set_q_one(system, q_index) ==
    LET converted(poly) ==
            [k \in 1..Len(poly) |->
                IF poly[k][2] = q_index THEN Term(poly[k][1], 0) ELSE poly[k]]
        hits == SelectSeq(system.zeros, LAMBDA term : term[2] = q_index)
        transformation ==
            [zeroed_ps |-> [k \in 1..Len(hits) |-> hits[k][1]],
             zeroed_qs |-> <<>>,
             zeroed_terms |-> <<>>]
        result ==
            [zeros |-> SelectSeq(system.zeros,
                                 LAMBDA term : term[2] # q_index),
             ones |-> [n \in 1..Len(system.ones) |->
                          converted(system.ones[n])],
             unknown |-> [n \in 1..Len(system.unknown) |->
                             converted(system.unknown[n])]]
    IN Deep_apply(result, transformation)

Deep_has_constant(poly) == \E k \in 1..Len(poly) : is_constant(poly[k])

Deep_remove_constant_terms(system) ==
    IF \E n \in 1..Len(system.ones) :
          CountIn(system.ones[n], Term(0, 0)) >= 2
    THEN Deep_nullopt
    ELSE IF \E n \in 1..Len(system.unknown) :
               CountIn(system.unknown[n], Term(0, 0)) >= 2
    THEN Deep_nullopt
    ELSE Deep_apply(system,
            CollectConstantEquations(
                CollectConstantEquations(EmptySubstitution, system.ones),
                system.unknown))

\* The ones equations the first loop of simplify returns from: a single
\* monomial that is not the constant.
Deep_forced(system) ==
    {n \in 1..Len(system.ones) :
        /\ Len(system.ones[n]) = 1
        /\ ~is_constant(system.ones[n][1])}

RECURSIVE Deep_simplify(_)
Deep_simplify(system) ==
    IF Deep_forced(system) # {}
    THEN LET n == CHOOSE n \in Deep_forced(system) :
                     \A m \in Deep_forced(system) : n <= m
             term == system.ones[n][1]
             next == IF has_p(term) THEN Deep_set_p_one(system, term[1])
                     ELSE Deep_set_q_one(system, term[2])
         IN IF next.has_value THEN Deep_simplify(next.value)
            ELSE Deep_nullopt
    ELSE IF \/ \E n \in 1..Len(system.ones) :
                  Deep_has_constant(system.ones[n])
            \/ \E n \in 1..Len(system.unknown) :
                  Deep_has_constant(system.unknown[n])
    THEN LET next == Deep_remove_constant_terms(system)
         IN IF next.has_value THEN Deep_simplify(next.value)
            ELSE Deep_nullopt
    ELSE Deep_some(system)

Deep_move_unknown_to_zero(system, index) ==
    IF Deep_has_constant(system.unknown[index]) THEN Deep_nullopt
    ELSE Deep_apply(system,
            Sub_set_zero_poly(EmptySubstitution, system.unknown[index]))

Deep_move_unknown_to_one(system, index) ==
    Deep_some([zeros |-> system.zeros,
               ones |-> Append(system.ones, system.unknown[index]),
               unknown |-> [n \in 1..(Len(system.unknown) - 1) |->
                               IF n < index THEN system.unknown[n]
                               ELSE system.unknown[n + 1]]])

\* push(stack, item)
Deep_push(items, item) ==
    IF item.has_value /\ ~Deep_empty(item.value)
    THEN LET simplified == Deep_simplify(item.value)
         IN IF simplified.has_value /\ ~Deep_empty(simplified.value)
            THEN Append(items, simplified.value)
            ELSE items
    ELSE items

\* One iteration of the loop of main on the popped System: the stack after
\* it and what it writes to output_file.
Deep_iteration(rest, current) ==
    IF current.zeros # <<>>
    THEN [stack |-> Deep_push(
                      Deep_push(rest,
                          Deep_set_p_zero(current, Head(current.zeros)[1])),
                      Deep_set_q_zero(current, Head(current.zeros)[2])),
          output |-> <<>>]
    ELSE IF current.unknown # <<>>
    THEN [stack |-> Deep_push(
                      Deep_push(rest, Deep_move_unknown_to_zero(current, 1)),
                      Deep_move_unknown_to_one(current, 1)),
          output |-> <<>>]
    ELSE [stack |-> rest, output |-> <<current.ones>>]

\* ----------------------------------------------- EquationReducer: State<T>
State_none == [zeroed_terms |-> <<>>, equations |-> <<>>]

\* State(p_degree, q_degree)
State(p_degree, q_degree) ==
    [zeroed_terms |-> <<>>,
     equations |-> [d \in 1..(p_degree + q_degree - 1) |->
                       InitialEquation(p_degree, q_degree, d)]]

\* Term::is_zeroed_p / is_zeroed_q / is_zeroed
State_is_zeroed_p(term, zeroed_ps) ==
    term[1] # 0 /\ contains(zeroed_ps, term[1])

State_is_zeroed_q(term, zeroed_qs) ==
    term[2] # 0 /\ contains(zeroed_qs, term[2])

State_is_zeroed(term, zeroed_ps, zeroed_qs) ==
    State_is_zeroed_p(term, zeroed_ps) \/ State_is_zeroed_q(term, zeroed_qs)

\* Equation::is_constant / has_constant_term
State_is_constant(equation) ==
    \A k \in 1..Len(equation) : is_constant(equation[k])

State_has_constant_term(equation) ==
    \E k \in 1..Len(equation) : is_constant(equation[k])

State_kept(equations) ==
    SelectSeq(equations, LAMBDA equation : ~State_is_constant(equation))

State_set_p_zero(state, p_index) ==
    [zeroed_terms |-> SelectSeq(state.zeroed_terms,
                                LAMBDA term : term[1] # p_index),
     equations |-> State_kept(
        [n \in 1..Len(state.equations) |->
            SelectSeq(state.equations[n], LAMBDA term : term[1] # p_index)])]

State_set_q_zero(state, q_index) ==
    [zeroed_terms |-> SelectSeq(state.zeroed_terms,
                                LAMBDA term : term[2] # q_index),
     equations |-> State_kept(
        [n \in 1..Len(state.equations) |->
            SelectSeq(state.equations[n], LAMBDA term : term[2] # q_index)])]

State_set_p_one(state, p_index) ==
    LET hits == SelectSeq(state.zeroed_terms, LAMBDA term : term[1] = p_index)
        zeroed_qs == [k \in 1..Len(hits) |-> hits[k][2]]
        converted(equation) ==
            LET kept == SelectSeq(equation,
                            LAMBDA term : ~State_is_zeroed_q(term, zeroed_qs))
            IN [k \in 1..Len(kept) |->
                   IF kept[k][1] = p_index THEN Term(0, kept[k][2])
                   ELSE kept[k]]
    IN [zeroed_terms |-> SelectSeq(state.zeroed_terms,
                            LAMBDA term : ~State_is_zeroed_q(term, zeroed_qs)),
        equations |-> State_kept(
            [n \in 1..Len(state.equations) |->
                converted(state.equations[n])])]

State_set_q_one(state, q_index) ==
    LET hits == SelectSeq(state.zeroed_terms, LAMBDA term : term[2] = q_index)
        zeroed_ps == [k \in 1..Len(hits) |-> hits[k][1]]
        converted(equation) ==
            LET kept == SelectSeq(equation,
                            LAMBDA term : ~State_is_zeroed_p(term, zeroed_ps))
            IN [k \in 1..Len(kept) |->
                   IF kept[k][2] = q_index THEN Term(kept[k][1], 0)
                   ELSE kept[k]]
    IN [zeroed_terms |-> SelectSeq(state.zeroed_terms,
                            LAMBDA term : ~State_is_zeroed_p(term, zeroed_ps)),
        equations |-> State_kept(
            [n \in 1..Len(state.equations) |->
                converted(state.equations[n])])]

\* The three lists remove_constant_terms collects from the equations that
\* have a constant term.
RECURSIVE State_collect(_, _)
State_collect(sub, equations) ==
    IF equations = <<>> THEN sub
    ELSE State_collect(
            IF State_has_constant_term(Head(equations))
            THEN Sub_set_zero_poly(sub, Head(equations))
            ELSE sub,
            Tail(equations))

State_remove_constant_terms(state) ==
    LET sub == State_collect(EmptySubstitution, state.equations)
        live(term) == ~State_is_zeroed(term, sub.zeroed_ps, sub.zeroed_qs)
    IN [zeroed_terms |->
            SelectSeq(state.zeroed_terms, live)
               \o SelectSeq(sub.zeroed_terms, live),
        equations |-> State_kept(
            LET without == SelectSeq(state.equations,
                    LAMBDA equation : ~State_has_constant_term(equation))
            IN [n \in 1..Len(without) |->
                   SelectSeq(without[n],
                       LAMBDA term :
                          live(term) /\ ~contains(sub.zeroed_terms, term))])]

State_find_eligible_variable(state) ==
    LET hits == {n \in 1..Len(state.equations) :
                    /\ Len(state.equations[n]) = 1
                    /\ is_linear(state.equations[n][1])}
    IN IF hits = {} THEN Term(0, 0)
       ELSE state.equations[CHOOSE n \in hits : \A m \in hits : n <= m][1]

\* One iteration of the loop of main on the popped State: the stack after
\* it and what it writes to output_file.
State_iteration(rest, state) ==
    LET var == State_find_eligible_variable(state)
    IN IF var[1] # 0
       THEN [stack |-> rest \o
                <<State_set_p_zero(state, var[1]),
                  State_remove_constant_terms(
                      State_set_p_one(state, var[1]))>>,
             output |-> <<>>]
       ELSE IF var[2] # 0
       THEN [stack |-> rest \o
                <<State_set_q_zero(state, var[2]),
                  State_remove_constant_terms(
                      State_set_q_one(state, var[2]))>>,
             output |-> <<>>]
       ELSE IF state.zeroed_terms # <<>>
       THEN [stack |-> rest \o
                <<State_set_p_zero(state, Head(state.zeroed_terms)[1]),
                  State_set_q_zero(state, Head(state.zeroed_terms)[2])>>,
             output |-> <<>>]
       ELSE IF state.equations # <<>>
       THEN [stack |-> rest, output |-> <<state.equations>>]
       ELSE [stack |-> rest, output |-> <<>>]

\* ------------------------------------------ Batch reducers: main and files
Reducers == {"DeepEquationReducer", "EquationReducer"}

BatchMaxDegree == 3

\* Width in bits of the index type: std::uint8_t (DeepEquationReducer.cpp),
\* std::uint16_t (EquationReducer.cpp).
IndexBits(program) == IF program = "DeepEquationReducer" THEN 8 ELSE 16

\* static_cast to an unsigned type of the given width.
unsigned_cast(bits, value) == value % (2 ^ bits)

\* i and j of main.
BatchDegree(k) == unsigned_cast(IndexBits(reducer), args[k])

\* The command lines of the runs: every pair of small numbers for both
\* programs, and the smallest degrees at which DeepEquationReducer writes a
\* leaf.
BatchRuns ==
    (Reducers \X ((0..BatchMaxDegree) \X (0..BatchMaxDegree)))
       \cup {<<"DeepEquationReducer", <<7, 13>>>>}

\* A file left at a path by an earlier run.
EarlierFile == [exists |-> TRUE, writer |-> "earlier", written |-> <<>>]

SearchIdle ==
    /\ degrees = <<1, 1>>
    /\ stack = <<>>
    /\ case_id = <<>>
    /\ leaves = <<>>
    /\ last_case = <<>>
    /\ true_first = FALSE

BatchInit ==
    /\ SearchIdle
    /\ OpsIdle
    /\ PackedIdle
    /\ MainIdle
    /\ BuildIdle
    /\ \E run \in BatchRuns : reducer = run[1] /\ args = run[2]
    /\ batch_pc = "main"
    /\ batch_stack = <<>>
    /\ output_file = "closed"
    /\ temp_file \in {NoFile, EarlierFile}
    /\ dest_file \in {NoFile, EarlierFile}
    /\ dest_touched = 0

\* std::ofstream output_file(temp_name): the file is created or truncated,
\* or the stream is left in a failed state.
OpenTemp ==
    /\ batch_pc = "main"
    /\ \E opened \in BOOLEAN :
          /\ output_file' = IF opened THEN "open" ELSE "failed"
          /\ temp_file' = IF opened
                          THEN [exists |-> TRUE, writer |-> "run",
                                written |-> <<>>]
                          ELSE temp_file
    /\ batch_pc' = "construct"
    /\ UNCHANGED <<reducer, args, batch_stack, dest_file, dest_touched,
                   search_vars, ops_vars, packed_vars, main_vars, build_vars>>

\* The first push: System(i, j) or State(i, j).  For i = j = 0 the size
\* i + j - 1 of the vector of equations is negative and its constructor
\* throws inside a noexcept function.
Construct ==
    /\ batch_pc = "construct"
    /\ IF BatchDegree(1) + BatchDegree(2) = 0
       THEN /\ batch_pc' = "terminated"
            /\ output_file' = "closed"
            /\ UNCHANGED batch_stack
       ELSE /\ batch_pc' = "loop"
            /\ batch_stack' =
                 IF reducer = "DeepEquationReducer"
                 THEN Deep_push(<<>>, Deep_some(
                         Deep_initial(BatchDegree(1), BatchDegree(2))))
                 ELSE <<State_remove_constant_terms(
                         State(BatchDegree(1), BatchDegree(2)))>>
            /\ UNCHANGED output_file
    /\ UNCHANGED <<reducer, args, temp_file, dest_file, dest_touched,
                   search_vars, ops_vars, packed_vars, main_vars, build_vars>>

\* The loop body writing its leaf to the destination path.
Iterate_writes_destination ==
    /\ batch_pc = "loop"
    /\ batch_stack # <<>>
    /\ LET rest == SubSeq(batch_stack, 1, Len(batch_stack) - 1)
           current == batch_stack[Len(batch_stack)]
           done == IF reducer = "DeepEquationReducer"
                   THEN Deep_iteration(rest, current)
                   ELSE State_iteration(rest, current)
       IN /\ batch_stack' = done.stack
          /\ dest_file' = IF output_file = "open" /\ done.output # <<>>
                          THEN [exists |-> TRUE, writer |-> "run",
                                written |-> done.output]
                          ELSE dest_file
    /\ UNCHANGED <<reducer, args, batch_pc, output_file, temp_file,
                   dest_touched, search_vars, ops_vars, packed_vars, main_vars, build_vars>>

\* One iteration of while (!stack.empty()): a leaf goes to output_file.
Iterate ==
    /\ batch_pc = "loop"
    /\ batch_stack # <<>>
    /\ LET rest == SubSeq(batch_stack, 1, Len(batch_stack) - 1)
           current == batch_stack[Len(batch_stack)]
           done == IF reducer = "DeepEquationReducer"
                   THEN Deep_iteration(rest, current)
                   ELSE State_iteration(rest, current)
       IN /\ batch_stack' = done.stack
          /\ temp_file' = IF output_file = "open"
                          THEN [temp_file EXCEPT
                                   !.written = @ \o done.output]
                          ELSE temp_file
    /\ UNCHANGED <<reducer, args, batch_pc, output_file, dest_file,
                   dest_touched, search_vars, ops_vars, packed_vars, main_vars, build_vars>>

\* The loop ends and the block closes: output_file is destroyed.
CloseTemp ==
    /\ batch_pc = "loop"
    /\ batch_stack = <<>>
    /\ output_file' = "closed"
    /\ batch_pc' = "rename"
    /\ UNCHANGED <<reducer, args, batch_stack, temp_file, dest_file,
                   dest_touched, search_vars, ops_vars, packed_vars, main_vars, build_vars>>

\* std::filesystem::rename(temp_name, file_name): it replaces the
\* destination, or throws when there is no file at temp_name.
Rename ==
    /\ batch_pc = "rename"
    /\ dest_touched' = dest_touched + 1
    /\ IF temp_file.exists
       THEN /\ dest_file' = temp_file
            /\ temp_file' = NoFile
            /\ batch_pc' = "report"
       ELSE /\ batch_pc' = "terminated"
            /\ UNCHANGED <<temp_file, dest_file>>
    /\ UNCHANGED <<reducer, args, batch_stack, output_file,
                   search_vars, ops_vars, packed_vars, main_vars, build_vars>>

\* The message on std::cout and return EXIT_SUCCESS.
Report ==
    /\ batch_pc = "report"
    /\ batch_pc' = "exit"
    /\ UNCHANGED <<reducer, args, batch_stack, output_file, temp_file,
                   dest_file, dest_touched, search_vars, ops_vars,
                   packed_vars, main_vars, build_vars>>

\* The process is stopped from outside before the rename.
Stop ==
    /\ batch_pc \in {"main", "construct", "loop", "rename"}
    /\ batch_pc' = "stopped"
    /\ output_file' = "closed"
    /\ UNCHANGED <<reducer, args, batch_stack, temp_file, dest_file,
                   dest_touched, search_vars, ops_vars, packed_vars, main_vars, build_vars>>

BatchNext ==
    \/ OpenTemp
    \/ Construct
    \/ Iterate
    \/ CloseTemp
    \/ Rename
    \/ Report
    \/ Stop

SpecBatch == BatchInit /\ [][BatchNext]_vars

\* ------------------------------------------------------------ claim C26
Published == batch_pc \in {"report", "exit"}

\* C26: a step changes the file at the destination path only if it is the
\* rename, taken with the work stack empty and the stream on the temporary
\* file closed, and no step before it named the destination path; while the
\* run has not completed the rename, whether it goes on or has stopped, the
\* destination holds what it held at the start and every leaf written so far
\* is in the temporary file.
C26_AtomicPersistence ==
    [][/\ (dest_file' # dest_file \/ dest_touched' # dest_touched) =>
             /\ batch_pc = "rename"
             /\ batch_stack = <<>>
             /\ output_file = "closed"
             /\ dest_touched = 0
             /\ dest_touched' = 1
             /\ dest_file' = IF temp_file.exists THEN temp_file
                             ELSE dest_file
       /\ ~Published' =>
             /\ dest_file'.writer # "run"
             /\ dest_file'.written = <<>>
       /\ Len(temp_file'.written) > Len(temp_file.written) =>
             /\ batch_pc = "loop"
             /\ output_file = "open"
             /\ dest_file' = dest_file]_vars

\* The run wrote several leaves, closed the temporary file and renamed it
\* to the destination path.
C26_Witness ==
    /\ reducer = "DeepEquationReducer"
    /\ batch_pc = "exit"
    /\ dest_touched = 1
    /\ dest_file.writer = "run"
    /\ Len(dest_file.written) >= 2
    /\ ~temp_file.exists

\* The run was stopped in the loop after it wrote a leaf: the leaf is in the
\* temporary file and the destination file of the earlier run is intact.
C26_WitnessStopped ==
    /\ reducer = "EquationReducer"
    /\ batch_pc = "stopped"
    /\ batch_stack # <<>>
    /\ temp_file.writer = "run"
    /\ temp_file.written # <<>>
    /\ dest_file = EarlierFile
    /\ dest_touched = 0

\* ----------------------------------------- Entry points: degree arguments
\* The mains that read the degrees from argv: src/src/ZeroOneSolver.cpp,
\* src/ZeroOneSolver.cpp and the two batch reducers.
Entries ==
    {"src/src/ZeroOneSolver.cpp", "src/ZeroOneSolver.cpp"} \cup Reducers

ArgSpan == 3

\* Numbers written on the command line: small ones, and the same above
\* 2^8, 2^15 and 2^16.
ArgValues ==
    UNION {{k, 2 ^ 8 + k, 2 ^ 15 + k, 2 ^ 16 + k} : k \in 0..ArgSpan}

\* std::int16_t in the two solvers, unsigned in the reducers.
IndexSigned(program) ==
    program \in {"src/src/ZeroOneSolver.cpp", "src/ZeroOneSolver.cpp"}

\* std::numeric_limits<index type>::max()
IndexMax(program) ==
    IF IndexSigned(program) THEN 2 ^ (IndexBits(program) - 1) - 1
    ELSE 2 ^ IndexBits(program) - 1

\* static_cast to a signed type of the given width.
signed_cast(bits, value) ==
    IF unsigned_cast(bits, value) >= 2 ^ (bits - 1)
    THEN unsigned_cast(bits, value) - 2 ^ bits
    ELSE unsigned_cast(bits, value)

index_cast(program, value) ==
    IF IndexSigned(program) THEN signed_cast(IndexBits(program), value)
    ELSE unsigned_cast(IndexBits(program), value)

MainInit ==
    /\ SearchIdle
    /\ OpsIdle
    /\ PackedIdle
    /\ ReducerIdle
    /\ entry \in Entries
    /\ argv \in ArgValues \X ArgValues
    /\ main_pc = "main"
    /\ main_degrees = <<0, 0>>
    /\ BuildIdle

\* main, from the reading of argv[1] and argv[2] to the values of i and j:
\* only src/src/ZeroOneSolver.cpp compares them with the range of the index
\* type, and exits with EXIT_FAILURE from ensure.
ReadDegrees ==
    /\ main_pc = "main"
    /\ IF entry = "src/src/ZeroOneSolver.cpp"
       THEN LET i_valid == argv[1] > 0 /\ argv[1] <= IndexMax(entry)
                j_valid == argv[2] > 0 /\ argv[2] <= IndexMax(entry)
            IN IF i_valid /\ j_valid
               THEN /\ main_pc' = "read"
                    /\ main_degrees' = <<index_cast(entry, argv[1]),
                                         index_cast(entry, argv[2])>>
               ELSE /\ main_pc' = "exit_failure"
                    /\ UNCHANGED main_degrees
       ELSE /\ main_pc' = "read"
            /\ main_degrees' = <<index_cast(entry, argv[1]),
                                 index_cast(entry, argv[2])>>
    /\ UNCHANGED <<entry, argv, search_vars, ops_vars, packed_vars,
                   reducer_vars, build_vars>>

\* The sizes the constructor of the initial System gives to its vectors;
\* a negative one makes the vector constructor throw in a noexcept function.
VectorSizes(program, i, j) ==
    IF IndexSigned(program) THEN {i - 1, j - 1, i + j - 1} ELSE {i + j - 1}

\* main constructs System(i, j) or State(i, j), taken as one step; the loops
\* of the constructor are stepped by Allocate .. InnerStep.
ConstructSystem ==
    /\ main_pc = "read"
    /\ main_pc' =
          IF \E size \in VectorSizes(entry, main_degrees[1], main_degrees[2]) :
                size < 0
          THEN "terminated"
          ELSE "constructed"
    /\ UNCHANGED <<entry, argv, main_degrees, search_vars, ops_vars,
                   packed_vars, reducer_vars, build_vars>>

MainNext == ReadDegrees \/ ConstructSystem

SpecMain == MainInit /\ [][MainNext]_vars

\* ------------------------------------------------------------ claim C27
OutOfRange(k) == argv[k] = 0 \/ argv[k] > IndexMax(entry)

\* C27, as stated: in every entry point a degree argument that is 0 or
\* larger than the maximum of the index type ends main with a failure exit
\* before a System is constructed, and i and j are the numbers of the
\* command line whenever main goes on.
C27_AsStated ==
    /\ (OutOfRange(1) \/ OutOfRange(2)) =>
          main_pc \in {"main", "exit_failure"}
    /\ main_pc \in {"read", "constructed"} => main_degrees = argv

\* What the code does: src/src/ZeroOneSolver.cpp rejects every out-of-range
\* argument; the other mains go on with the argument cast to the index type,
\* and end abnormally in the constructor only when a vector size is negative.
C27_Validation ==
    /\ entry = "src/src/ZeroOneSolver.cpp" =>
          /\ (OutOfRange(1) \/ OutOfRange(2)) =>
                main_pc \in {"main", "exit_failure"}
          /\ main_pc \in {"read", "constructed"} => main_degrees = argv
    /\ entry # "src/src/ZeroOneSolver.cpp" =>
          /\ main_pc # "exit_failure"
          /\ main_pc \in {"read", "constructed", "terminated"} =>
                main_degrees = <<index_cast(entry, argv[1]),
                                 index_cast(entry, argv[2])>>

\* DeepEquationReducer given 258 and 3 constructs System(2, 3).
C27_WitnessWrapped ==
    /\ entry = "DeepEquationReducer"
    /\ argv = <<2 ^ 8 + 2, 3>>
    /\ main_pc = "constructed"
    /\ main_degrees = <<2, 3>>

\* src/src/ZeroOneSolver.cpp given 65538 and 3 exits with failure.
C27_WitnessRejected ==
    /\ entry = "src/src/ZeroOneSolver.cpp"
    /\ argv = <<2 ^ 16 + 2, 3>>
    /\ main_pc = "exit_failure"

\* ------------------------------- move_unknown_to_zero / _to_one: the index
\* The builds of the two functions: src/src/ZeroOneSolver.cpp instantiates
\* them with paranoid false or true, src/ZeroOneSolver.cpp always checks.
MoveBuilds ==
    {"src/src/ZeroOneSolver.cpp", "src/src/ZeroOneSolver.cpp --paranoid",
     "src/ZeroOneSolver.cpp"}

\* The build that compiles no check.
MoveChecked_never(build) == FALSE

\* Whether ensure and prevent are compiled into the two functions.
MoveChecked(build) == build # "src/src/ZeroOneSolver.cpp"

\* How far past the end of unknown a request may point.
MaxPastEnd == 2

\* What system.unknown[index] may denote when index is past the end: the
\* access is undefined and reads whatever the memory holds.
PastEndPolynomials == {<<>>, <<Term(0, 0)>>, <<Term(1, 1)>>}

MoveInit ==
    /\ degrees \in (1..OpsMaxI) \X (1..OpsMaxJ)
    /\ SearchInit
    /\ true_first = FALSE
    /\ sys = System(degrees[1], degrees[2])
    /\ last = NoOp
    /\ nops = 0
    /\ PackedIdle
    /\ ReducerIdle
    /\ entry \in MoveBuilds
    /\ argv = degrees
    /\ main_pc = "running"
    /\ main_degrees = degrees
    /\ BuildIdle

\* ensure or prevent fails: the message goes to stderr and the process
\* exits; the call returns no System.
MoveExit(op, index) ==
    /\ nops' = nops + 1
    /\ last' = [op |-> op, index |-> index, sub |-> EmptySubstitution,
                before |-> sys, after |-> sys, deep |-> Deep_nullopt]
    /\ main_pc' = "exit_failure"
    /\ UNCHANGED <<sys, entry, argv, main_degrees, search_vars, packed_vars,
                   reducer_vars, build_vars>>

\* The unchecked access past the end: the process is ended by the system,
\* or the call goes on with what it read and returns one of outcomes.
MoveUndefined(op, index, outcomes) ==
    \/ /\ nops' = nops + 1
       /\ last' = [op |-> op, index |-> index, sub |-> EmptySubstitution,
                   before |-> sys, after |-> sys, deep |-> Deep_nullopt]
       /\ main_pc' = "crashed"
       /\ UNCHANGED <<sys, entry, argv, main_degrees, search_vars,
                      packed_vars, reducer_vars, build_vars>>
    \/ \E result \in outcomes :
          /\ nops' = nops + 1
          /\ sys' = result
          /\ last' = [op |-> op, index |-> index, sub |-> EmptySubstitution,
                      before |-> sys, after |-> result,
                      deep |-> Deep_nullopt]
          /\ UNCHANGED <<main_vars, search_vars, packed_vars, reducer_vars, build_vars>>

MoveToZero ==
    /\ main_pc = "running"
    /\ nops < MaxOps
    /\ \E index \in 1..(Len(sys.unknown) + MaxPastEnd) :
          IF index \in 1..Len(sys.unknown)
          THEN IF /\ MoveChecked(entry)
                  /\ \E k \in 1..Len(sys.unknown[index]) :
                        is_constant(sys.unknown[index][k])
               THEN MoveExit("move_unknown_to_zero", index)
               ELSE /\ Record("move_unknown_to_zero", index,
                              EmptySubstitution,
                              move_unknown_to_zero(sys, index), Deep_nullopt)
                    /\ UNCHANGED main_vars
          ELSE IF MoveChecked(entry)
          THEN MoveExit("move_unknown_to_zero", index)
          ELSE MoveUndefined("move_unknown_to_zero", index,
                  {apply(sys, Sub_set_zero_poly(EmptySubstitution, equation)) :
                      equation \in PastEndPolynomials})

MoveToOne ==
    /\ main_pc = "running"
    /\ nops < MaxOps
    /\ \E index \in 1..(Len(sys.unknown) + MaxPastEnd) :
          IF index \in 1..Len(sys.unknown)
          THEN /\ Record("move_unknown_to_one", index, EmptySubstitution,
                         move_unknown_to_one(sys, index), Deep_nullopt)
               /\ UNCHANGED main_vars
          ELSE IF MoveChecked(entry)
          THEN MoveExit("move_unknown_to_one", index)
          ELSE MoveUndefined("move_unknown_to_one", index,
                  {[sys EXCEPT !.ones = Append(@, equation)] :
                      equation \in PastEndPolynomials})

\* The other transformations, applied while the process runs.
Transform ==
    /\ main_pc = "running"
    /\ OpApply \/ OpSetPZero \/ OpSetQZero \/ OpSetPOne \/ OpSetQOne

MoveNext == Transform \/ MoveToZero \/ MoveToOne

SpecMove == MoveInit /\ [][MoveNext]_vars

\* ------------------------------------------------------------ claim C28
MoveRequested ==
    last.op \in {"move_unknown_to_zero", "move_unknown_to_one"}

PastEndRequested ==
    MoveRequested /\ last.index > Len(last.before.unknown)

C28_WitnessUnchecked ==
    /\ PastEndRequested
    /\ entry = "src/src/ZeroOneSolver.cpp"
    /\ main_pc = "running"
    /\ last.op = "move_unknown_to_one"
    /\ Len(last.after.ones) = Len(last.before.ones) + 1
    /\ Len(last.after.unknown) = Len(last.before.unknown)

\* ------------------------------------------------------------ claim C29
\* The active-variable count of a System.
ActiveCount(system) == Len(system.active_ps) + Len(system.active_qs)

\* No variable is active in after that was not active in before.
AddsNoVariable(before, after) ==
    /\ Range(after.active_ps) \subseteq Range(before.active_ps)
    /\ Range(after.active_qs) \subseteq Range(before.active_qs)

\* The variable indices a caller can name on a System: ZERO, its active
\* variables and the indices of its monomials.
NamedIndices(system, axis) ==
    {0} \cup Range(IF axis = 1 THEN system.active_ps ELSE system.active_qs)
        \cup {term[axis] :
                term \in EquationTerms(system) \cup Range(system.zeros)}

\* The batches a caller can build on a System with one call of set_zero: one
\* of its monomials, or one of its equations.
NamedBatches(system) ==
    {Sub_set_zero(EmptySubstitution, term) :
        term \in (EquationTerms(system) \cup Range(system.zeros))
                    \ {Term(0, 0)}}
    \cup {Sub_set_zero_poly(EmptySubstitution, poly) :
            poly \in Range(system.ones) \cup Range(system.unknown)}

\* The results of the transformations of a System.
Transformed(system) ==
    {apply(system, sub) : sub \in NamedBatches(system)}
    \cup {set_p_zero(system, k) : k \in NamedIndices(system, 1)}
    \cup {set_p_one(system, k) : k \in NamedIndices(system, 1)}
    \cup {set_q_zero(system, k) : k \in NamedIndices(system, 2)}
    \cup {set_q_one(system, k) : k \in NamedIndices(system, 2)}
    \cup {move_unknown_to_zero(system, n) : n \in 1..Len(system.unknown)}
    \cup {move_unknown_to_one(system, n) : n \in 1..Len(system.unknown)}

\* C29: pinning an active variable of a System to zero or to one yields a
\* System with a strictly smaller active-variable count, and no
\* transformation (apply, the four pins, the two moves of an unknown
\* equation), no rewriting of simplify and no branch of analyze yields a
\* System with a variable in active_ps or active_qs that was not there before.
C29_MonotonicProgress ==
    /\ \A k \in Range(Top.cur.active_ps) :
          /\ ActiveCount(set_p_zero(Top.cur, k)) < ActiveCount(Top.cur)
          /\ ActiveCount(set_p_one(Top.cur, k)) < ActiveCount(Top.cur)
    /\ \A k \in Range(Top.cur.active_qs) :
          /\ ActiveCount(set_q_zero(Top.cur, k)) < ActiveCount(Top.cur)
          /\ ActiveCount(set_q_one(Top.cur, k)) < ActiveCount(Top.cur)
    /\ \A after \in Transformed(Top.cur) : AddsNoVariable(Top.cur, after)
    /\ \A d \in 1..Len(stack) :
          /\ AddsNoVariable(stack[d].system, stack[d].cur)
          /\ stack[d].simplified.has_value =>
                AddsNoVariable(stack[d].cur, stack[d].simplified.value)
          /\ d > 1 => AddsNoVariable(stack[d - 1].simplified.value,
                                     stack[d].system)

\* In the recursive call for the true case of a branch on a variable,
\* simplify has rewritten a System that is smaller than the caller's: the
\* pin and the rewritings each removed active variables.
C29_Witness ==
    /\ Len(stack) > 1
    /\ stack[Len(stack) - 1].pc = "second"
    /\ stack[Len(stack) - 1].outcome = "variable"
    /\ ActiveCount(Top.system)
          < ActiveCount(stack[Len(stack) - 1].simplified.value)
    /\ ActiveCount(Top.cur) < ActiveCount(Top.system)
    /\ ActiveCount(Top.cur) > 0

\* A System with a zeros entry on an active variable: pinning that variable
\* to one removes its cofactor from the active variables as well.
C29_WitnessCofactor ==
    \E k \in Range(Top.cur.active_ps) :
        ActiveCount(set_p_one(Top.cur, k)) < ActiveCount(Top.cur) - 1

\* ------------------------------------------------------------ claim C30
\* The variable v of an axis (1 for p, 2 for q) occurs in the monomial of a
\* one-monomial ones equation, or is the variable of an unknown equation that
\* is a single linear monomial.
SolvedBy(system, axis, v) ==
    \/ \E n \in 1..Len(system.ones) :
          /\ Len(system.ones[n]) = 1
          /\ system.ones[n][1][axis] = v
    \/ \E n \in 1..Len(system.unknown) :
          /\ Len(system.unknown[n]) = 1
          /\ is_linear(system.unknown[n][1])
          /\ system.unknown[n][1][axis] = v

EveryActiveVariableSolved(system) ==
    /\ \A k \in 1..Len(system.active_ps) :
          SolvedBy(system, 1, system.active_ps[k])
    /\ \A k \in 1..Len(system.active_qs) :
          SolvedBy(system, 2, system.active_qs[k])

\* C30: a call of simplify on a System returns at its solved check exactly
\* when the System has no unsatisfiable equation and every active variable
\* occurs in the monomial of a one-monomial ones equation or is the variable
\* of an unknown equation that is a single linear monomial; a System with an
\* unsatisfiable equation is reported unsatisfiable even when that holds; and
\* the call of analyze that got the solved report makes no recursive call
\* and prints no leaf.
C30_SolvedClassification ==
    /\ Top.pc = "simplify" =>
          /\ simplify_step(Top.cur).kind = "solved"
                <=> /\ ~has_unsatisfiable_equation(Top.cur)
                    /\ EveryActiveVariableSolved(Top.cur)
          /\ has_unsatisfiable_equation(Top.cur)
                => simplify_step(Top.cur).kind = "unsat"
    /\ \A d \in 1..Len(stack) :
          stack[d].outcome = "solved" =>
              /\ d = Len(stack)
              /\ stack[d].pc = "done"
              /\ ~stack[d].simplified.has_value
              /\ EveryActiveVariableSolved(stack[d].cur)
              /\ \A n \in 1..Len(leaves) : leaves[n] # stack[d].cur
    /\ \A n \in 1..Len(leaves) : ~EveryActiveVariableSolved(leaves[n])

\* A call of analyze has returned on a solved report for a System that
\* simplify had rewritten and that has active p and q variables, one of them
\* solved by a one-monomial ones equation.
C30_Witness ==
    /\ Top.pc = "done"
    /\ Top.outcome = "solved"
    /\ Top.cur # Top.system
    /\ Top.cur.active_ps # <<>>
    /\ Top.cur.active_qs # <<>>
    /\ \E n \in 1..Len(Top.cur.ones) : Len(Top.cur.ones[n]) = 1

\* A System with an unsatisfiable equation whose active variables are all
\* solved: simplify reported it unsatisfiable.
C30_WitnessContradictionFirst ==
    /\ Top.pc = "done"
    /\ Top.outcome = "unsat"
    /\ ActiveCount(Top.cur) > 0
    /\ EveryActiveVariableSolved(Top.cur)

\* ------------------------------------------------------------ claim C31
\* The small degree pairs, on which the forced-one rule fires on
\* unsatisfiable Systems only, and the smallest pair whose search fires it
\* on a System that has satisfying 0/1 assignments.
SoundDegrees == ((1..MaxI) \X (1..MaxJ)) \cup {<<4, 8>>}

SoundInit ==
    /\ degrees \in SoundDegrees
    /\ SearchInit
    /\ true_first = FALSE
    /\ OpsIdle
    /\ PackedIdle
    /\ ReducerIdle
    /\ MainIdle
    /\ BuildIdle

SpecSound == SoundInit /\ [][Next]_vars

\* The variables of an axis that a rewriting of simplify removes from the
\* active variables.
Eliminated(before, after, axis) ==
    IF axis = 1
    THEN Range(before.active_ps) \ Range(after.active_ps)
    ELSE Range(before.active_qs) \ Range(after.active_qs)

\* The variables of an axis that the rewriting pins to one: those of the
\* monomial of the ones equation the forced-one rule fires on.
PinnedToOne(system, step, axis) ==
    IF step.rule = "one"
    THEN LET n == CHOOSE n \in ForcedOneCandidates(system) :
                     \A m \in ForcedOneCandidates(system) : n <= m
         IN {system.ones[n][1][axis]} \ {0}
    ELSE {}

\* The assignment gives every eliminated variable its pinned value: one to
\* the variables of the forced monomial, zero to the others.
PinsHold(a, system, step) ==
    /\ \A k \in Eliminated(system, step.next, 1) :
          a.p[k] = (IF k \in PinnedToOne(system, step, 1) THEN 1 ELSE 0)
    /\ \A k \in Eliminated(system, step.next, 2) :
          a.q[k] = (IF k \in PinnedToOne(system, step, 2) THEN 1 ELSE 0)

Restriction(a, system) ==
    [p |-> [k \in Range(system.active_ps) |-> a.p[k]],
     q |-> [k \in Range(system.active_qs) |-> a.q[k]]]

\* simplify rewrites the System it was called on.
Rewrites(system) == simplify_step(system).kind \in {"recurse", "empty"}

RewriteSound(system) ==
    LET step == simplify_step(system)
    IN \A a \in Assignments(system) :
          Satisfies(a, system)
              <=> /\ PinsHold(a, system, step)
                  /\ Satisfies(Restriction(a, step.next), step.next)

\* C31: for every rewriting S -> S' of simplify (forced-one propagation or
\* constant-term elimination) in the search, a 0/1 assignment of the active
\* variables of S satisfies S exactly when it gives the eliminated variables
\* their pinned values and its restriction to the active variables of S'
\* satisfies S'; and the System of a call of analyze that ends on the
\* unsatisfiable report, and the System the report was made on, have no
\* satisfying 0/1 assignment.
C31_RewriteSoundness ==
    /\ (Top.pc = "simplify" /\ Rewrites(Top.cur)) => RewriteSound(Top.cur)
    /\ (Top.pc = "done" /\ Top.outcome = "unsat") =>
          /\ \A a \in Assignments(Top.cur) : ~Satisfies(a, Top.cur)
          /\ \A a \in Assignments(Top.system) : ~Satisfies(a, Top.system)

\* simplify is about to rewrite a satisfiable System by constant-term
\* elimination, with p and q variables eliminated and others kept.
C31_Witness ==
    /\ Top.pc = "simplify"
    /\ simplify_step(Top.cur).kind = "recurse"
    /\ simplify_step(Top.cur).rule = "const"
    /\ Eliminated(Top.cur, simplify_step(Top.cur).next, 1) # {}
    /\ ActiveCount(simplify_step(Top.cur).next) > 0
    /\ \E a \in Assignments(Top.cur) : Satisfies(a, Top.cur)

\* The forced-one rule fires on a satisfiable System.
C31_WitnessForcedOne ==
    /\ Top.pc = "simplify"
    /\ Rewrites(Top.cur)
    /\ simplify_step(Top.cur).rule = "one"
    /\ \E a \in Assignments(Top.cur) : Satisfies(a, Top.cur)

\* A call of analyze on a System with active variables ended on the
\* unsatisfiable report after a rewriting.
C31_WitnessContradiction ==
    /\ Top.pc = "done"
    /\ Top.outcome = "unsat"
    /\ Top.cur # Top.system
    /\ ActiveCount(Top.system) > 0

\* ------------------------------------------------------------ claim C32
LeafShaped(system) ==
    /\ system.zeros = <<>>
    /\ system.unknown = <<>>
    /\ \A n \in 1..Len(system.ones) :
          /\ Len(system.ones[n]) >= 2
          /\ \A k \in 1..Len(system.ones[n]) :
                ~is_constant(system.ones[n][k])

\* C32: every System printed as a leaf has empty zeros and empty unknown, and
\* each of its ones equations has at least two monomials, none of them the
\* constant monomial.
C32_LeafShape ==
    \A n \in 1..Len(leaves) : LeafShaped(leaves[n])

\* The search has printed all its leaves, more than one, and one of them was
\* reached through a branch that moved an unknown equation into ones.
C32_Witness ==
    /\ Finished
    /\ Len(leaves) >= 2
    /\ \E n \in 1..Len(leaves) :
          Len(leaves[n].ones) > Len(System(degrees[1], degrees[2]).ones)

\* ------------------------------------------------------------ claim C33
\* C33: in every System printed as a leaf, every active variable occurs in a
\* ones equation (has_free_variable is false), and the leaf has at least one
\* ones equation.
C33_NoFreeVariableInLeaf ==
    \A n \in 1..Len(leaves) :
        /\ ~has_free_variable(leaves[n])
        /\ \A k \in Range(leaves[n].active_ps) :
              \E term \in EquationTerms(leaves[n]) : term[1] = k
        /\ \A k \in Range(leaves[n].active_qs) :
              \E term \in EquationTerms(leaves[n]) : term[2] = k
        /\ leaves[n].ones # <<>>

\* The search that makes the true call first has printed a leaf with active
\* p and q variables, each of them occurring in a ones equation.
C33_Witness ==
    /\ true_first
    /\ \E n \in 1..Len(leaves) :
          /\ leaves[n].active_ps # <<>>
          /\ leaves[n].active_qs # <<>>
          /\ ~has_free_variable(leaves[n])

\* ------------------------------------------------------------ claim C34
ZerosInvariant(system) ==
    /\ \A k \in 1..Len(system.zeros) :
          /\ is_quadratic(system.zeros[k])
          /\ \A m \in 1..Len(system.zeros) :
                system.zeros[m] = system.zeros[k] => m = k
    /\ Range(system.zeros) \cap EquationTerms(system) = {}

\* The Systems held by the calls of analyze on the stack.
SystemsOnStack ==
    UNION {{stack[d].system, stack[d].cur} \cup
           (IF stack[d].simplified.has_value
            THEN {stack[d].simplified.value} ELSE {}) : d \in 1..Len(stack)}

\* The batch a pin to one builds from zeros.
PinBatch(system, axis, index) ==
    ZeroCofactors(EmptySubstitution, system.zeros, axis, index)

\* The batches the next step of the search builds: by the rewriting of
\* simplify on the current System, or by the transformations that make the
\* two Systems of a branch.
BatchesBuilt ==
    IF Top.pc = "simplify" /\ Rewrites(Top.cur)
    THEN IF simplify_step(Top.cur).rule = "const"
         THEN {ConstantSubstitution(Top.cur)}
         ELSE LET n == CHOOSE n \in ForcedOneCandidates(Top.cur) :
                          \A m \in ForcedOneCandidates(Top.cur) : n <= m
                  term == Top.cur.ones[n][1]
              IN IF is_quadratic(term)
                 THEN {PinBatch(Top.cur, 1, term[1]),
                       PinBatch(set_p_one(Top.cur, term[1]), 2, term[2])}
                 ELSE IF has_p(term) THEN {PinBatch(Top.cur, 1, term[1])}
                 ELSE {PinBatch(Top.cur, 2, term[2])}
    ELSE IF Top.pc = "decide"
    THEN LET R == Top.simplified.value
             branch == BranchOf(R)
         IN IF branch.kind = "variable"
            THEN {IF has_p(branch.term) THEN PinBatch(R, 1, branch.term[1])
                  ELSE PinBatch(R, 2, branch.term[2])}
            ELSE IF branch.kind = "unknown"
            THEN {Sub_set_zero_poly(EmptySubstitution,
                                    R.unknown[branch.index])}
            ELSE {}
    ELSE {}

\* C34: in every System of the search every zeros entry is a quadratic
\* monomial, occurs once in zeros and occurs in no ones or unknown equation;
\* and no batch built during the search names the index 0 as a zeroed p or q
\* or holds a zeroed monomial that is not quadratic.
C34_ZerosInvariant ==
    /\ \A system \in SystemsOnStack : ZerosInvariant(system)
    /\ \A sub \in BatchesBuilt :
          /\ 0 \notin Range(sub.zeroed_ps) \cup Range(sub.zeroed_qs)
          /\ \A term \in Range(sub.zeroed_terms) : is_quadratic(term)

\* A pin to one is about to be made on a System with several zeros entries,
\* and its batch zeroes a cofactor.
C34_Witness ==
    /\ Len(Top.cur.zeros) >= 2
    /\ \E sub \in BatchesBuilt :
          /\ sub.zeroed_terms = <<>>
          /\ Len(sub.zeroed_ps) + Len(sub.zeroed_qs) > 0
    /\ \/ Top.pc = "decide"
       \/ simplify_step(Top.cur).rule = "one"

\* Constant-term elimination is about to add monomials to a non-empty zeros.
C34_WitnessBatch ==
    /\ Top.pc = "simplify"
    /\ Top.cur.zeros # <<>>
    /\ \E sub \in BatchesBuilt : sub.zeroed_terms # <<>>

\* ------------------------------------------------------------ claim C35
\* The ones and unknown equations of a System, in one sequence.
Equations(system) == system.ones \o system.unknown

\* The equations of the System in which the monomial occurs.
Holders(system, term) ==
    {n \in 1..Len(Equations(system)) : contains(Equations(system)[n], term)}

\* No quadratic monomial of the equation n occurs in a later equation, and
\* within the equation n only the constant monomial occurs more than once.
UniqueIn(eqs, n) ==
    /\ \A k \in 1..Len(eqs[n]) :
          is_quadratic(eqs[n][k]) =>
              \A m \in (n + 1)..Len(eqs) : ~contains(eqs[m], eqs[n][k])
    /\ \A k \in 1..Len(eqs[n]) :
          is_constant(eqs[n][k])
              \/ \A m \in 1..Len(eqs[n]) : eqs[n][m] = eqs[n][k] => m = k

\* C35: in every System of the search (as passed to analyze, as rewritten by
\* simplify, as returned by simplify) each quadratic monomial occurs in at
\* most one equation of ones and unknown together, and within one equation
\* only the constant monomial occurs more than once.
C35_MonomialUniqueness ==
    \A system \in {Top.system, Top.cur} \cup
                   (IF Top.simplified.has_value
                    THEN {Top.simplified.value} ELSE {}) :
        \A n \in 1..Len(Equations(system)) : UniqueIn(Equations(system), n)

\* Pins to one have turned quadratic monomials of the unknown equations into
\* linear ones, one of which occurs in two equations, while the quadratic
\* monomials left are spread over ones and unknown.
C35_Witness ==
    /\ Len(stack) > 1
    /\ Top.cur.ones # <<>>
    /\ Top.cur.unknown # <<>>
    /\ \E term \in EquationTerms(Top.cur) :
          is_linear(term) /\ Cardinality(Holders(Top.cur, term)) >= 2
    /\ \E n \in 1..Len(Top.cur.ones) :
          \E k \in 1..Len(Top.cur.ones[n]) : is_quadratic(Top.cur.ones[n][k])
    /\ \E n \in 1..Len(Top.cur.unknown) :
          \E k \in 1..Len(Top.cur.unknown[n]) :
              is_quadratic(Top.cur.unknown[n][k])

\* ------------------------------------------------------------ claim C36
\* The batch that zeroes the one variable of an axis.
SingleVariableBatch(axis, index) ==
    IF axis = 1 THEN Sub_set_p_zero(EmptySubstitution, index)
    ELSE Sub_set_q_zero(EmptySubstitution, index)

\* The indices tried on a System: those it names, ZERO, and an index that
\* occurs nowhere in it.
TriedIndices(system, axis) ==
    NamedIndices(system, axis) \cup {degrees[axis] + 1}

\* C36: on every System of the search and for every index k, set_p_zero(k)
\* returns the System that apply returns for the batch whose only entry is
\* the zeroed variable p_k, and set_q_zero(k) the System that apply returns
\* for the batch whose only entry is q_k: the same active_ps, active_qs,
\* zeros, ones and unknown, in the same order.
C36_PinToZeroIsApply ==
    /\ \A k \in TriedIndices(Top.cur, 1) :
          set_p_zero(Top.cur, k) = apply(Top.cur, SingleVariableBatch(1, k))
    /\ \A k \in TriedIndices(Top.cur, 2) :
          set_q_zero(Top.cur, k) = apply(Top.cur, SingleVariableBatch(2, k))

\* A System with zeros, ones and unknown on which zeroing an active p removes
\* a zeros entry, resolves an unknown equation and empties no active list.
C36_Witness ==
    \E k \in Range(Top.cur.active_ps) :
        LET after == set_p_zero(Top.cur, k)
        IN /\ Top.cur.ones # <<>>
           /\ Len(after.zeros) < Len(Top.cur.zeros)
           /\ Len(after.unknown) < Len(Top.cur.unknown)
           /\ after.active_ps # <<>>
           /\ after # Top.cur

\* ------------------------------------------------------------ claim C37
\* analyze is about to branch on the variable of a single-linear-monomial
\* unknown equation of the simplified System.
AtVariableBranch ==
    Top.pc = "decide" /\ BranchOf(Top.simplified.value).kind = "variable"

\* The index of the unknown equation find_unknown_variable returns from.
BranchEquation(system) ==
    CHOOSE n \in 1..Len(system.unknown) :
        /\ Len(system.unknown[n]) = 1
        /\ is_linear(system.unknown[n][1])
        /\ \A m \in 1..(n - 1) :
              ~(Len(system.unknown[m]) = 1 /\ is_linear(system.unknown[m][1]))

\* The variable of the linear monomial var is a factor of the monomial term.
SharesVariable(var, term) ==
    IF has_p(var) THEN term[1] = var[1] ELSE term[2] = var[2]

InZeros(system, var) ==
    \E k \in 1..Len(system.zeros) : SharesVariable(var, system.zeros[k])

InOnes(system, var) ==
    \E n \in 1..Len(system.ones) :
        \E k \in 1..Len(system.ones[n]) :
            SharesVariable(var, system.ones[n][k])

InOtherUnknown(system, var) ==
    \E n \in 1..Len(system.unknown) :
        /\ n # BranchEquation(system)
        /\ \E k \in 1..Len(system.unknown[n]) :
              SharesVariable(var, system.unknown[n][k])

\* C37 as stated: the variable analyze branches on occurs in no zeros entry,
\* in no ones equation and in no other unknown equation of the simplified
\* System.
C37_AsStated ==
    AtVariableBranch =>
        LET R == Top.simplified.value
            var == BranchOf(R).term
        IN /\ ~InZeros(R, var)
           /\ ~InOnes(R, var)
           /\ ~InOtherUnknown(R, var)

\* C37 (amended): the variable analyze branches on is the variable of the
\* first unknown equation of the simplified System that is a single linear
\* monomial, and it is an active variable of that System; its other
\* occurrences are not looked at.
C37_VariableBranch ==
    AtVariableBranch =>
        LET R == Top.simplified.value
            var == BranchOf(R).term
        IN /\ is_linear(var)
           /\ R.unknown[BranchEquation(R)] = <<var>>
           /\ IF has_p(var) THEN contains(R.active_ps, var[1])
              ELSE contains(R.active_qs, var[2])

\* analyze branches on a variable that occurs in a zeros entry, in a ones
\* equation and in another unknown equation of the simplified System.
C37_Witness ==
    /\ AtVariableBranch
    /\ InZeros(Top.simplified.value, BranchOf(Top.simplified.value).term)
    /\ InOnes(Top.simplified.value, BranchOf(Top.simplified.value).term)
    /\ InOtherUnknown(Top.simplified.value,
                      BranchOf(Top.simplified.value).term)

\* analyze branches on a variable whose equation is not the first unknown
\* equation.
C37_WitnessLater ==
    /\ AtVariableBranch
    /\ BranchEquation(Top.simplified.value) > 1

\* ------------------------------------------------------------ claim C38
NoConstantMonomial(system) ==
    /\ \A n \in 1..Len(system.ones) : ~Deep_has_constant(system.ones[n])
    /\ \A n \in 1..Len(system.unknown) : ~Deep_has_constant(system.unknown[n])

\* The Systems returned by the calls of set_p_one, set_q_one and
\* remove_constant_terms that simplify makes on a System, its tail calls
\* included.
RECURSIVE Deep_returned_in_simplify(_)
Deep_returned_in_simplify(system) ==
    LET next ==
            IF Deep_forced(system) # {}
            THEN LET n == CHOOSE n \in Deep_forced(system) :
                             \A m \in Deep_forced(system) : n <= m
                     term == system.ones[n][1]
                 IN IF has_p(term) THEN Deep_set_p_one(system, term[1])
                    ELSE Deep_set_q_one(system, term[2])
            ELSE IF ~NoConstantMonomial(system)
            THEN Deep_remove_constant_terms(system)
            ELSE Deep_nullopt
    IN IF next.has_value
       THEN {next.value} \cup Deep_returned_in_simplify(next.value)
       ELSE {}

\* The Systems a call of push handles: the one passed to it and those
\* returned inside its call of simplify.
Deep_values_in_push(item) ==
    IF item.has_value
    THEN {item.value} \cup
         (IF Deep_empty(item.value) THEN {}
          ELSE Deep_returned_in_simplify(item.value))
    ELSE {}

\* The System values the next step of DeepEquationReducer makes: the System
\* constructed from (i, j) or the Systems returned to the loop body by
\* set_p_zero / set_q_zero or by move_unknown_to_zero / move_unknown_to_one,
\* and the Systems returned inside the calls of push.
Deep_values_made ==
    IF reducer # "DeepEquationReducer" THEN {}
    ELSE IF batch_pc = "construct" /\ BatchDegree(1) + BatchDegree(2) > 0
    THEN Deep_values_in_push(
            Deep_some(Deep_initial(BatchDegree(1), BatchDegree(2))))
    ELSE IF batch_pc = "loop" /\ batch_stack # <<>>
    THEN LET current == batch_stack[Len(batch_stack)]
         IN IF current.zeros # <<>>
            THEN Deep_values_in_push(
                    Deep_set_p_zero(current, Head(current.zeros)[1]))
                 \cup Deep_values_in_push(
                    Deep_set_q_zero(current, Head(current.zeros)[2]))
            ELSE IF current.unknown # <<>>
            THEN Deep_values_in_push(Deep_move_unknown_to_zero(current, 1))
                 \cup Deep_values_in_push(Deep_move_unknown_to_one(current, 1))
            ELSE {}
    ELSE {}

\* C38, as stated: no System value of DeepEquationReducer, constructed from
\* (i, j), returned by a transformation or held on the work stack, has a
\* constant monomial in a ones or unknown equation.
C38_AsStated ==
    reducer = "DeepEquationReducer" =>
        /\ \A system \in Deep_values_made : NoConstantMonomial(system)
        /\ \A k \in 1..Len(batch_stack) : NoConstantMonomial(batch_stack[k])

\* What holds: the Systems on the work stack, which push has simplified, and
\* the Systems returned to the loop body have no constant monomial.
C38_WorkStack ==
    reducer = "DeepEquationReducer" =>
        /\ \A k \in 1..Len(batch_stack) : NoConstantMonomial(batch_stack[k])
        /\ (batch_pc = "loop" /\ batch_stack # <<>>) =>
              LET current == batch_stack[Len(batch_stack)]
                  returned ==
                      IF current.zeros # <<>>
                      THEN {Deep_set_p_zero(current, Head(current.zeros)[1]),
                            Deep_set_q_zero(current, Head(current.zeros)[2])}
                      ELSE IF current.unknown # <<>>
                      THEN {Deep_move_unknown_to_zero(current, 1),
                            Deep_move_unknown_to_one(current, 1)}
                      ELSE {}
              IN \A item \in returned :
                    item.has_value => NoConstantMonomial(item.value)

\* ------------------------------------------------------------ claim C39
\* The monomials of a row of System<M, N>::lhs, the padding left out.
PackedMonomials(row) == SelectSeq(row, LAMBDA term : term # TERM_ZERO)

SameMultiset(left, right) ==
    \A term \in Range(left) \cup Range(right) :
        CountIn(left, term) = CountIn(right, term)

RepresentationsAgree(M, N) ==
    LET packed == Packed_System(M, N)
        persistent == System(M, N)
    IN /\ Len(packed.lhs) = M + N - 1
       /\ Len(persistent.unknown) = M + N - 1
       /\ \A d \in 1..(M + N - 1) :
             /\ Len(packed.lhs[d]) = M + 1
             /\ SameMultiset(PackedMonomials(packed.lhs[d]),
                             persistent.unknown[d])
       /\ Len(packed.rhs) = M + N - 1
       /\ \A d \in 1..(M + N - 1) : packed.rhs[d] = "ZERO_OR_ONE"
       /\ Len(packed.p) = M - 1
       /\ Len(packed.q) = N - 1
       /\ \A k \in 1..(M - 1) : packed.p[k] = "UNKNOWN"
       /\ \A k \in 1..(N - 1) : packed.q[k] = "UNKNOWN"

\* C39: for 0 < M < N the bit-packed System<M, N>() holds in equation d
\* exactly the multiset of monomials of System(M, N).unknown[d - 1] of the
\* persistent program, in rows of M + 1 terms, with every right-hand side
\* ZERO_OR_ONE and every variable UNKNOWN.
C39_InitialSystemsAgree ==
    (0 < degrees[1] /\ degrees[1] < degrees[2]) =>
        RepresentationsAgree(degrees[1], degrees[2])

\* The persistent System of a pair whose packed constructor takes all five
\* branches (d < M, d = M, M < d < N, d = N, d > N) has just been built, and
\* some packed row carries padding while another is full.
C39_Witness ==
    /\ degrees[1] >= 2
    /\ degrees[2] >= degrees[1] + 2
    /\ Len(stack) = 1
    /\ Top.pc = "enter"
    /\ Top.system = System(degrees[1], degrees[2])
    /\ \E d \in 1..(degrees[1] + degrees[2] - 1) :
          Len(PackedMonomials(
                  Packed_System(degrees[1], degrees[2]).lhs[d]))
              < degrees[1] + 1
    /\ \E d \in 1..(degrees[1] + degrees[2] - 1) :
          Len(PackedMonomials(
                  Packed_System(degrees[1], degrees[2]).lhs[d]))
              = degrees[1] + 1
    /\ RepresentationsAgree(degrees[1], degrees[2])

\* ------------------------------ Construction of the initial System, stepped
\* The constructors whose loops count in the index type:
\* System::System(p_degree, q_degree) of src/src (std::int16_t) and
\* initial_equations of DeepEquationReducer.cpp (std::uint8_t).
BuildEntries == {"src/src/ZeroOneSolver.cpp", "DeepEquationReducer"}

\* Degree pairs main hands to the constructor: small ones, and pairs with
\* the maximum of the index type or the value below it.
BuildDegrees(program) ==
    {<<1, 2>>, <<2, 3>>, <<IndexMax(program) - 1, 1>>,
     <<IndexMax(program), 1>>, <<1, IndexMax(program)>>}

BuildInit ==
    /\ SearchIdle
    /\ OpsIdle
    /\ PackedIdle
    /\ ReducerIdle
    /\ entry \in BuildEntries
    /\ main_degrees \in BuildDegrees(entry)
    /\ argv = main_degrees
    /\ main_pc = "read"
    /\ build_pc = "allocate"
    /\ build_p = 0
    /\ build_q = 0
    /\ build_index = -1
    /\ build_wrapped = FALSE

\* ++p on a counter of the index type: p + 1 is computed in int and
\* converted back to the index type.
pre_increment(program, value) == index_cast(program, value + 1)

\* The vectors are given their sizes; src/src goes on to fill active_ps.
Allocate ==
    /\ build_pc = "allocate"
    /\ IF \E size \in VectorSizes(entry, main_degrees[1], main_degrees[2]) :
             size < 0
       THEN /\ build_pc' = "terminated"
            /\ UNCHANGED build_p
       ELSE IF IndexSigned(entry)
       THEN /\ build_pc' = "active_ps"
            /\ build_p' = 1
       ELSE /\ build_pc' = "outer"
            /\ build_p' = 0
    /\ UNCHANGED <<build_q, build_index, build_wrapped, main_vars,
                   search_vars, ops_vars, packed_vars, reducer_vars>>

\* for (p = 1; p < p_degree; ++p) active_ps[p - 1] = p;
FillActivePs ==
    /\ build_pc = "active_ps"
    /\ IF build_p < main_degrees[1]
       THEN /\ build_p' = pre_increment(entry, build_p)
            /\ build_wrapped' =
                  (build_wrapped \/ pre_increment(entry, build_p) < build_p)
            /\ UNCHANGED <<build_pc, build_q>>
       ELSE /\ build_pc' = "active_qs"
            /\ build_q' = 1
            /\ UNCHANGED <<build_p, build_wrapped>>
    /\ UNCHANGED <<build_index, main_vars, search_vars, ops_vars,
                   packed_vars, reducer_vars>>

\* for (q = 1; q < q_degree; ++q) active_qs[q - 1] = q;
FillActiveQs ==
    /\ build_pc = "active_qs"
    /\ IF build_q < main_degrees[2]
       THEN /\ build_q' = pre_increment(entry, build_q)
            /\ build_wrapped' =
                  (build_wrapped \/ pre_increment(entry, build_q) < build_q)
            /\ UNCHANGED <<build_pc, build_p>>
       ELSE /\ build_pc' = "outer"
            /\ build_p' = 0
            /\ UNCHANGED <<build_q, build_wrapped>>
    /\ UNCHANGED <<build_index, main_vars, search_vars, ops_vars,
                   packed_vars, reducer_vars>>

\* The test p <= p_degree of the outer loop; the inner loop starts at q = 0.
OuterTest ==
    /\ build_pc = "outer"
    /\ IF build_p <= main_degrees[1]
       THEN /\ build_pc' = "inner"
            /\ build_q' = 0
       ELSE /\ build_pc' = "done"
            /\ UNCHANGED build_q
    /\ UNCHANGED <<build_p, build_index, build_wrapped, main_vars,
                   search_vars, ops_vars, packed_vars, reducer_vars>>

\* One pass of the inner loop: the test q <= q_degree, the two continue
\* statements, the emplace_back into unknown[p + q - 1] and ++q; when the
\* test fails, ++p of the outer loop.  p + q - 1 is computed in int.  An
\* index outside the vector is undefined behaviour: the process is ended by
\* the system or goes on.  The memory holds the monomials of one pass over
\* the counters; after a wrap an emplace_back may throw std::bad_alloc in
\* the noexcept constructor.
InnerStep ==
    /\ build_pc = "inner"
    /\ IF build_q <= main_degrees[2]
       THEN LET index == build_p + build_q - 1
                skipped ==
                    \/ build_p = 0 /\ build_q = 0
                    \/ build_p = main_degrees[1] /\ build_q = main_degrees[2]
                outcomes ==
                    IF skipped THEN {"inner"}
                    ELSE IF index \notin
                               0..(main_degrees[1] + main_degrees[2] - 2)
                    THEN {"inner", "crashed"}
                    ELSE IF build_wrapped THEN {"inner", "terminated"}
                    ELSE {"inner"}
            IN /\ build_index' = IF skipped THEN build_index ELSE index
               /\ build_pc' \in outcomes
               /\ build_q' = pre_increment(entry, build_q)
               /\ build_wrapped' =
                     (build_wrapped
                         \/ pre_increment(entry, build_q) < build_q)
               /\ UNCHANGED build_p
       ELSE /\ build_pc' = "outer"
            /\ build_p' = pre_increment(entry, build_p)
            /\ build_wrapped' =
                  (build_wrapped \/ pre_increment(entry, build_p) < build_p)
            /\ UNCHANGED <<build_q, build_index>>
    /\ UNCHANGED <<main_vars, search_vars, ops_vars, packed_vars,
                   reducer_vars>>

BuildNext ==
    \/ Allocate
    \/ FillActivePs
    \/ FillActiveQs
    \/ OuterTest
    \/ InnerStep

SpecBuild == BuildInit /\ [][BuildNext]_vars

\* ------------------------------------------------------------ claim C40
ConstructionSafe ==
    /\ ~build_wrapped
    /\ build_pc \notin {"crashed", "terminated"}
    /\ build_index \in -1..(main_degrees[1] + main_degrees[2] - 2)

\* C40, as stated: for every degree pair within the index width, the
\* maximum of the index type included, no loop counter of the construction
\* wraps around, the construction is not ended abnormally, and every
\* equation it accesses has an index in 0..i+j-2.
C40_AsStated ==
    (/\ build_pc # "idle"
     /\ main_degrees[1] \in 1..IndexMax(entry)
     /\ main_degrees[2] \in 1..IndexMax(entry)) => ConstructionSafe

\* What holds: the same for degree pairs below the maximum of the index
\* type.
C40_BelowMaximum ==
    (/\ build_pc # "idle"
     /\ main_degrees[1] \in 1..(IndexMax(entry) - 1)
     /\ main_degrees[2] \in 1..(IndexMax(entry) - 1)) => ConstructionSafe

====
